---- MODULE Spec2Model ----
(***************************************************************************)
(* Model of the modal controller (js/modal.js) together with the parts of  *)
(* the page bootstrap (js/main.js) that act on the modal: the document     *)
(* level Escape handler and the focus-managing MutationObserver; of the    *)
(* repository feed (js/github-api.js, lines 1-392); and of the theme store *)
(* (js/github-api.js, lines 394-687).  Each of the three has its own       *)
(* specification, in which the variables of the other two keep their       *)
(* initial values.                                                         *)
(*                                                                         *)
(* One TLA+ step is one task of the browser's event loop (a user event, a  *)
(* timer, an API call) or one microtask checkpoint (the MutationObserver   *)
(* callback, which runs before the next task).  Sequential JavaScript is   *)
(* written as operators from a state record to a state record, composed    *)
(* with LET in the order of the statements.                                *)
(***************************************************************************)
EXTENDS Integers, Sequences, FiniteSets, TLC

(* ------------------------------ bounds -------------------------------- *)
MaxDialogs == 1      \* showConfirmModal / showAlertModal calls in one run
StackFrames == 3     \* closeModal frames the call stack holds
MaxTimers == 2       \* 100 ms timers pending at once
MaxResponse == 16    \* repositories in one response of the API
MaxLoads == 1        \* loadRepositories calls in flight besides the first
MaxPending == 2      \* debounce timers pending at once
MaxThemeInits == 1   \* initThemeToggle calls after one page load
MaxListeners == 2    \* callbacks registered with onThemeChange
MaxDays == 800       \* largest whole-day distance of a timestamp from now
MaxSteps == 400      \* star counts sampled at each of the two strides
MaxProjectInits == 2 \* initProjects calls on one page

(* ------------------------ constants of the code ----------------------- *)
ForkStars == 5       \* github-api.js:64
RepoLimit == 12      \* github-api.js:66
StarredStars == 50   \* github-api.js:287
DebounceWait == 300  \* github-api.js:249, in ms
DayLength == 24      \* github-api.js:334, 1000 * 60 * 60 * 24 ms, in hours

(* ------------------------- the document ------------------------------- *)
\* Tabbable elements of the page outside the modal, in document order.
PageElements == <<"p1", "p2">>
PageSet == {PageElements[i] : i \in 1..Len(PageElements)}
\* What an options.onClose callback supplied by a caller may do to the DOM.
UserEffects == {"removeP1", "focusP2"}
\* The keys that activate a card.
Keys == {"Enter", " "}
DialogButtons == {"confirm-cancel", "confirm-ok", "alert-ok"}
\* The regions openModal looks up, and the ways a page can lack them: not
\* at all, the overlay with everything in it, the title, or the body.
AbsentRegions ==
    { {}, {"modal-overlay", "modal-title", "modal-body"}, {"modal-title"},
      {"modal-body"} }

NoCallback == [type |-> "none", id |-> 0, effect |-> ""]
\* onClose of a dialog: () => resolve(value)
ResolveCallback(d, value) == [type |-> "resolve", id |-> d, effect |-> value]
UserCallback(e) == [type |-> "user", id |-> 0, effect |-> e]
\* onClose: () => closeModal()
ReentrantCallback == UserCallback("closeModal")

\* The calls of openModal made by page code: openProjectModal passes a
\* project's title and detail markup and no options; a generic caller passes
\* a notice with a decorative class and, possibly, an onClose callback.
OpenCalls ==
    {[title |-> "project", content |-> "project", className |-> "", onClose |-> NoCallback]}
    \cup {[title |-> "notice", content |-> "notice", className |-> "wide", onClose |-> cb] :
              cb \in {NoCallback} \cup {UserCallback(e) : e \in UserEffects}}
\* The titles passed to showConfirmModal and showAlertModal.
ConfirmTitle == "confirm"
AlertTitle == "alert"

Control(i, dis, vis) == [id |-> i, disabled |-> dis, visible |-> vis]

\* The interactive elements of a modal-body markup, in document order.
ContentControls(content) ==
    CASE content = "confirm" -> << Control("confirm-cancel", FALSE, TRUE),
                                   Control("confirm-ok", FALSE, TRUE) >>
      [] content = "alert"   -> << Control("alert-ok", FALSE, TRUE) >>
      [] content = "project" -> << Control("link", FALSE, TRUE) >>
      [] content = "notice"  -> << Control("x1", TRUE, TRUE),
                                   Control("x2", FALSE, FALSE) >>
      [] OTHER               -> << >>

ContentIds(content) ==
    {ContentControls(content)[i].id : i \in 1..Len(ContentControls(content))}

VARIABLES
    isModalOpen,                \* modal.js:6
    focusedElementBeforeModal,  \* modal.js:7
    modalCloseCallback,         \* modal.js:8
    overlayHidden,              \* #modal-overlay carries class "hidden"
    overlayClasses,             \* the other classes added to #modal-overlay
    bodyOverflow,               \* document.body.style.overflow
    modalTitle,                 \* #modal-title textContent
    modalBody,                  \* #modal-body innerHTML
    listeners,                  \* click listeners added to dialog buttons
    containerTabindex,          \* .modal-container has tabindex="-1"
    activeElement,              \* document.activeElement
    inDocument,                 \* page elements still in the document
    timers,                     \* pending 100 ms timers, oldest first
    liveRegion,                 \* #modal-live-region textContent
    dialogs,                    \* deferreds created so far
    settled,                    \* per deferred: "pending" or the value
    bootstrapped,               \* main.js init() ran past initGitHubAPI
    lastFocusedElement,         \* main.js:246
    mutationRecords,            \* records queued for the MutationObserver
    hiddenFocusable,            \* stylesheet: .hidden leaves elements focusable
    absent,                     \* the modal regions the markup lacks
    op,                         \* history: the kind of task just run
    closes,                     \* history: close sequences run by that task
    cbLog,                      \* history: what each onClose call observed
    overlayListenerRan,         \* history: overlay click listener ran
    focusAtOpen,                \* history: activeElement at the Closed->Open call
    resolveLog,                 \* history: the resolve calls of that task
    okRan,                      \* history: deferreds whose OK listener ran in it
    uncaught                    \* history: errors thrown in it that nothing caught

\* The variables of the modal controller and of the page around it.
modalRest == << isModalOpen, focusedElementBeforeModal, modalCloseCallback,
           overlayHidden, overlayClasses, bodyOverflow, modalTitle, modalBody,
           listeners, containerTabindex, inDocument, timers,
           liveRegion, dialogs, settled, bootstrapped,
           lastFocusedElement, mutationRecords, hiddenFocusable, absent, op, closes, cbLog, overlayListenerRan,
           focusAtOpen, resolveLog, okRan, uncaught >>

VARIABLES
    repositories,               \* github-api.js:6
    filteredRepositories,       \* github-api.js:7
    currentFilter,              \* github-api.js:8
    loadingHidden,              \* #repos-loading carries class "hidden"
    errorHidden,                \* #repos-error carries class "hidden"
    errorMessage,               \* .error-message textContent
    retryInstalled,             \* #retry-repos has its onclick handler
    emptyHidden,                \* #repos-empty carries class "hidden"
    gridCards,                  \* ids of the .repo-card elements of the grid
    activeButton,               \* the .filter-btn carrying class "active"
    searchValue,                \* #repo-search value
    bootStage,                  \* initGitHubAPI: "idle", "loading", "ready"
    inFlight,                   \* other loadRepositories calls awaiting fetch
    debounceTimers,             \* pending timers of the debounced handler
    timeout,                    \* github-api.js:358, 0 while undefined
    repoLiveRegion,             \* #live-region textContent
    repoOp,                     \* history: the kind of task just run
    lastData,                   \* history: the response that task processed
    lastInput,                  \* history: the text of the input event a timer waits for
    burst,                      \* history: input events since the handler last ran
    renders,                    \* history: renderRepositories calls of that task
    gridKeyNav,                 \* the grid's cards carry the keydown listener of main.js
    windowOpens,                \* history: ids of the repositories that task opened
    race                        \* history: "open" while a load in flight has been in
                                \* flight together with one that resolved, "done" in
                                \* the task that resolves the last of them

repoVars == << repositories, filteredRepositories, currentFilter,
               loadingHidden, errorHidden, errorMessage, retryInstalled,
               emptyHidden, gridCards, activeButton, searchValue, bootStage,
               inFlight, debounceTimers, timeout, repoLiveRegion, repoOp,
               lastData, lastInput, burst, renders, gridKeyNav,
               windowOpens, race >>

VARIABLES
    currentTheme,               \* github-api.js:402
    dataTheme,                  \* data-theme attribute of the root element
    storedItem,                 \* localStorage item 'portfolio-theme'
    storageMode,                \* which localStorage calls throw
    osTheme,                    \* (prefers-color-scheme: dark) as a theme
    themeInits,                 \* initThemeToggle calls since the page load
    toggleLabel,                \* aria-label of .theme-toggle
    themeAnnouncement,          \* #theme-announcement textContent
    themeOp,                    \* history: the kind of task just run
    themeEvents,                \* history: themechange events of that task
    userChose,                  \* history: explicit choice since the last reset
    themeBefore,                \* history: currentTheme before that task
    themeListeners,             \* callbacks registered with onThemeChange
    deliveries,                 \* history: the callback calls of that task
    threw                       \* history: an exception left the store in that task

themeVars == << currentTheme, dataTheme, storedItem, storageMode, osTheme,
                themeInits, toggleLabel, themeAnnouncement, themeOp,
                themeEvents, userChose, themeBefore, themeListeners,
                deliveries, threw >>

VARIABLES
    fmtOp,                      \* history: the function called last
    fmtCall,                    \* the call: function and arguments
    fmtText,                    \* history: the string it returned
    markup                      \* history: the texts it put into markup

formatVars == << fmtOp, fmtCall, fmtText, markup >>

VARIABLES
    projects,                   \* main.js:367, the catalog
    projectsGrid,               \* the cards of #projects-grid, in order
    hasGrid,                    \* #projects-grid exists
    projectInits,               \* initProjects calls so far
    opened,                     \* history: openProjectModal calls of that task
    followed,                   \* history: links that task navigated to
    pageOp                      \* history: label of the last task

pageVars == << projects, projectsGrid, hasGrid, projectInits, opened,
               followed, pageOp >>

vars == << modalRest, activeElement, repoVars, themeVars, formatVars, pageVars >>

\* The current state as one record, for sequential composition.
Cur ==
    [ isModalOpen |-> isModalOpen,
      focusedElementBeforeModal |-> focusedElementBeforeModal,
      modalCloseCallback |-> modalCloseCallback,
      overlayHidden |-> overlayHidden,
      overlayClasses |-> overlayClasses,
      bodyOverflow |-> bodyOverflow,
      modalTitle |-> modalTitle,
      modalBody |-> modalBody,
      listeners |-> listeners,
      containerTabindex |-> containerTabindex,
      activeElement |-> activeElement,
      inDocument |-> inDocument,
      timers |-> timers,
      liveRegion |-> liveRegion,
      dialogs |-> dialogs,
      settled |-> settled,
      bootstrapped |-> bootstrapped,
      lastFocusedElement |-> lastFocusedElement,
      mutationRecords |-> mutationRecords,
      hiddenFocusable |-> hiddenFocusable,
      absent |-> absent,
      op |-> op,
      closes |-> closes,
      cbLog |-> cbLog,
      overlayListenerRan |-> overlayListenerRan,
      focusAtOpen |-> focusAtOpen,
      resolveLog |-> resolveLog,
      okRan |-> okRan,
      uncaught |-> uncaught,
      depth |-> 0 ]             \* closeModal frames on the call stack

CommitModal(s) ==
    /\ isModalOpen' = s.isModalOpen
    /\ focusedElementBeforeModal' = s.focusedElementBeforeModal
    /\ modalCloseCallback' = s.modalCloseCallback
    /\ overlayHidden' = s.overlayHidden
    /\ overlayClasses' = s.overlayClasses
    /\ bodyOverflow' = s.bodyOverflow
    /\ modalTitle' = s.modalTitle
    /\ modalBody' = s.modalBody
    /\ listeners' = s.listeners
    /\ containerTabindex' = s.containerTabindex
    /\ activeElement' = s.activeElement
    /\ inDocument' = s.inDocument
    /\ timers' = s.timers
    /\ liveRegion' = s.liveRegion
    /\ dialogs' = s.dialogs
    /\ settled' = s.settled
    /\ bootstrapped' = s.bootstrapped
    /\ lastFocusedElement' = s.lastFocusedElement
    /\ mutationRecords' = s.mutationRecords
    /\ hiddenFocusable' = s.hiddenFocusable
    /\ absent' = s.absent
    /\ op' = s.op
    /\ closes' = s.closes
    /\ cbLog' = s.cbLog
    /\ overlayListenerRan' = s.overlayListenerRan
    /\ focusAtOpen' = s.focusAtOpen
    /\ resolveLog' = s.resolveLog
    /\ okRan' = s.okRan
    /\ uncaught' = s.uncaught

Commit(s) ==
    /\ CommitModal(s)
    /\ UNCHANGED << repoVars, themeVars, formatVars, pageVars >>


(* ------------------------- DOM primitives ----------------------------- *)
\* The controls of the modal in document order: the dismiss control
\* (.modal-close) of the header, then the controls of the body markup.
ModalControls(s) ==
    IF "modal-overlay" \in s.absent THEN << >>
    ELSE << Control("close", FALSE, TRUE) >> \o ContentControls(s.modalBody)

ModalIds(s) ==
    {"container"} \cup {ModalControls(s)[i].id : i \in 1..Len(ModalControls(s))}

isElementVisible(c) == c.visible

isElementDisabled(c) == c.disabled

IdsOf(seq) == [i \in 1..Len(seq) |-> seq[i].id]

\* modal.js getFocusableElements: the selector list keeps enabled controls,
\* the filter keeps the visible ones.
getFocusableElements(s) ==
    IdsOf(SelectSeq(ModalControls(s),
                    LAMBDA c : isElementVisible(c) /\ ~isElementDisabled(c)))

Range(seq) == {seq[i] : i \in 1..Len(seq)}

\* Whether the overlay's subtree can take focus at all.
OverlayRendered(s) ==
    "modal-overlay" \notin s.absent /\ (~s.overlayHidden \/ s.hiddenFocusable)

\* Whether element.focus() on el moves focus there.
CanFocus(s, el) ==
    \/ el \in s.inDocument
    \/ el = "container" /\ s.containerTabindex /\ OverlayRendered(s)
    \/ el \in Range(getFocusableElements(s)) /\ OverlayRendered(s)

\* element.focus(): a no-op on an element that is detached, hidden or inert.
Focus(s, el) == IF CanFocus(s, el) THEN [s EXCEPT !.activeElement = el] ELSE s

\* Attribute writes on the overlay queue one record each for the observer
\* of main.js once it is registered.
QueueRecords(s, n) ==
    IF s.bootstrapped THEN [s EXCEPT !.mutationRecords = @ + n] ELSE s

\* modalBody.innerHTML = content: the old body elements leave the document
\* (with their listeners); references to them go stale.
SetInnerHTML(s, content) ==
    LET old == ContentIds(s.modalBody)
        Stale(ref) == IF ref \in old THEN "detached" ELSE ref
    IN [s EXCEPT !.modalBody = content,
                 !.listeners = [b \in DialogButtons |-> << >>],
                 !.activeElement = IF @ \in old THEN "body" ELSE @,
                 !.focusedElementBeforeModal = Stale(@),
                 !.lastFocusedElement = Stale(@)]

\* Focus fixup: focus cannot stay inside a subtree that stopped rendering.
FocusFixup(s) ==
    IF ~OverlayRendered(s) /\ s.activeElement \in ModalIds(s)
    THEN [s EXCEPT !.activeElement = "body"] ELSE s

\* modal.js announceToScreenReader.  The region keeps the last message: the
\* timer that blanks it a second later changes nothing any code reads.
announceToScreenReader(s, message) == [s EXCEPT !.liveRegion = message]

\* The resolve function of deferred d: only the first call settles it.
Resolve(s, d, value) ==
    [s EXCEPT !.resolveLog = Append(@, d),
              !.settled[d] = IF @ = "pending" THEN value ELSE @]

\* Running an onClose callback.  The history entry records what the
\* callback could observe of the modal at that moment.  A callback that
\* calls closeModal adds a frame to the call stack; the call that would
\* exceed the stack throws a RangeError, which nothing here catches.
RECURSIVE closeModal(_)
InvokeCallback(s, cb) ==
    LET seen == [s EXCEPT !.cbLog = Append(@, [cb |-> cb,
                                               open |-> s.isModalOpen,
                                               hidden |-> s.overlayHidden])]
    IN CASE cb.type = "resolve" -> Resolve(seen, cb.id, cb.effect)
         [] cb.type = "user" /\ cb.effect = "removeP1" ->
                [seen EXCEPT !.inDocument = @ \ {"p1"},
                             !.activeElement = IF @ = "p1" THEN "body" ELSE @]
         [] cb.type = "user" /\ cb.effect = "focusP2" -> Focus(seen, "p2")
         [] cb.type = "user" /\ cb.effect = "closeModal" ->
                IF s.depth >= StackFrames
                THEN [seen EXCEPT !.uncaught = @ + 1]
                ELSE [closeModal([seen EXCEPT !.depth = @ + 1])
                          EXCEPT !.depth = s.depth]
         [] OTHER -> seen

(* ----------------------------- modal.js ------------------------------- *)
\* modal.js trapFocus
trapFocus(s) ==
    IF Len(getFocusableElements(s)) = 0
    THEN Focus([s EXCEPT !.containerTabindex = TRUE], "container")
    ELSE s

\* modal.js openModal, lines 32-67: the three regions exist
ShowModal(s, title, content, className, onClose) ==
    LET s1 == [s EXCEPT !.focusedElementBeforeModal = s.activeElement,
                        !.focusAtOpen = IF s.isModalOpen THEN "reopened"
                                        ELSE s.activeElement]
        s2 == [SetInnerHTML(s1, content) EXCEPT !.modalTitle = title]
        s3 == IF className # ""
              THEN QueueRecords([s2 EXCEPT !.overlayClasses = @ \cup {className}], 1)
              ELSE s2
        s4 == [s3 EXCEPT !.modalCloseCallback = onClose]
        s5 == QueueRecords([s4 EXCEPT !.overlayHidden = FALSE,
                                      !.isModalOpen = TRUE,
                                      !.bodyOverflow = "hidden"], 1)
        s6 == [s5 EXCEPT !.timers = Append(@, [kind |-> "focusClose", id |-> 0, closed |-> FALSE])]
        s7 == trapFocus(s6)
    IN announceToScreenReader(s7, "Dialog opened: " \o title)

openModal_Unguarded(s, title, content, className, onClose) ==
    ShowModal(s, title, content, className, onClose)

\* modal.js openModal: without one of the regions it logs and returns.
openModal(s, title, content, className, onClose) ==
    IF s.absent # {} THEN s ELSE ShowModal(s, title, content, className, onClose)

\* modal.js closeModal, lines 82-86: the close callback
RunCloseCallback(s) ==
    IF s.modalCloseCallback.type # "none"
    THEN LET called == InvokeCallback(s, s.modalCloseCallback)
         IN IF called.uncaught > s.uncaught
            THEN called     \* it threw: the assignment after it is skipped
            ELSE [called EXCEPT !.modalCloseCallback = NoCallback]
    ELSE s

\* The 100 ms timers stay pending over a close: modal.js never calls
\* clearTimeout.  Each pending timer remembers (history) that it was set
\* before a close.
OutliveClose(ts) == [i \in DOMAIN ts |-> [ts[i] EXCEPT !.closed = TRUE]]

HideOverlay_KeepClasses(s) ==
    FocusFixup(QueueRecords([s EXCEPT !.overlayHidden = TRUE,
                                      !.isModalOpen = FALSE,
                                      !.bodyOverflow = "",
                                      !.timers = OutliveClose(@)], 2))

\* modal.js closeModal, lines 88-99: hide, re-enable scroll, strip classes
HideOverlay(s) ==
    FocusFixup(QueueRecords([s EXCEPT !.overlayHidden = TRUE,
                                      !.isModalOpen = FALSE,
                                      !.bodyOverflow = "",
                                      !.overlayClasses = {},
                                      !.timers = OutliveClose(@)], 2))

\* modal.js closeModal, lines 101-105: restore focus
RestoreFocus(s) ==
    IF s.focusedElementBeforeModal # "null"
    THEN [Focus(s, s.focusedElementBeforeModal)
              EXCEPT !.focusedElementBeforeModal = "null"]
    ELSE s

FinishClose(s) == [announceToScreenReader(s, "Dialog closed") EXCEPT !.closes = @ + 1]

closeModal_RestoreFirst(s) ==
    IF "modal-overlay" \in s.absent \/ ~s.isModalOpen THEN s
    ELSE FinishClose(HideOverlay(RunCloseCallback(RestoreFocus(s))))

closeModal_CallbackLate(s) ==
    IF "modal-overlay" \in s.absent \/ ~s.isModalOpen THEN s
    ELSE FinishClose(RestoreFocus(RunCloseCallback(HideOverlay(s))))

closeModal_NoGuard(s) ==
    FinishClose(RestoreFocus(HideOverlay(RunCloseCallback(s))))

\* modal.js closeModal
closeModal(s) ==
    IF "modal-overlay" \in s.absent \/ ~s.isModalOpen THEN s
    ELSE LET called == RunCloseCallback(s)
         IN IF called.uncaught > s.uncaught
            THEN called     \* the error leaves closeModal before it hides
            ELSE FinishClose(RestoreFocus(HideOverlay(called)))

(* --------------------------- click dispatch --------------------------- *)
\* The value a dialog button's listener passes to resolve.
ButtonValue(b) ==
    CASE b = "confirm-ok" -> "true"
      [] b = "confirm-cancel" -> "false"
      [] OTHER -> "undefined"

\* The click listeners that showConfirmModal / showAlertModal added to
\* button b, run in the order they were added: closeModal(); resolve(v).
RECURSIVE RunDialogListeners(_, _, _)
RunDialogListeners(s, b, ds) ==
    IF ds = << >> THEN s
    ELSE LET s1 == closeModal(s)
             s2 == Resolve(s1, Head(ds), ButtonValue(b))
             s3 == IF b = "confirm-ok"
                   THEN [s2 EXCEPT !.okRan = @ \cup {Head(ds)}]
                   ELSE s2
         IN RunDialogListeners(s3, b, Tail(ds))

\* Listeners on the click target itself.
TargetListeners(s, target) ==
    CASE target = "close" -> closeModal(s)
      [] target \in DialogButtons -> RunDialogListeners(s, target, s.listeners[target])
      [] OTHER -> s

\* The overlay's click listener (modal.js:132-136).
OverlayListener(s, target) ==
    LET s1 == [s EXCEPT !.overlayListenerRan = TRUE]
    IN IF target = "overlay" THEN closeModal(s1) ELSE s1

DispatchClick_NoStop(s, target) ==
    OverlayListener(TargetListeners(s, target), target)

\* A click event on target: the target's listeners, then the bubbling path.
\* Every target but the overlay lies inside .modal-container, whose
\* listener stops propagation before the overlay is reached.
DispatchClick(s, target) ==
    LET s1 == TargetListeners(s, target)
    IN IF target # "overlay" THEN s1 ELSE OverlayListener(s1, target)

(* ------------------------------ keyboard ------------------------------ *)
IndexOf(seq, x) ==
    IF x \in Range(seq) THEN CHOOSE i \in 1..Len(seq) : seq[i] = x ELSE 0

\* The elements sequential focus navigation visits, in document order:
\* the page's, then the overlay's (which follows the page content).
TabOrder(s) ==
    SelectSeq(PageElements, LAMBDA p : p \in s.inDocument)
        \o (IF OverlayRendered(s) THEN getFocusableElements(s) ELSE << >>)

\* The browser's default action for Tab / Shift+Tab.  With focus on no
\* element, navigation starts from the last clicked place, so it may land
\* on any element of the order (land).
DefaultTab(s, shift, land) ==
    LET order == TabOrder(s)
        n == Len(order)
        k == Len(SelectSeq(PageElements, LAMBDA p : p \in s.inDocument))
        i == IndexOf(order, s.activeElement)
        next == CASE i > 0 /\ ~shift -> IF i = n THEN 1 ELSE i + 1
                  [] i > 0 /\ shift -> IF i = 1 THEN n ELSE i - 1
                  [] s.activeElement = "container" /\ ~shift ->
                         IF k + 1 <= n THEN k + 1 ELSE 1
                  [] s.activeElement = "container" /\ shift ->
                         IF k >= 1 THEN k ELSE n
                  [] OTHER -> IF land <= n THEN land ELSE 1
    IN IF n = 0 THEN s ELSE [s EXCEPT !.activeElement = order[next]]

Handled(s, p) == [state |-> s, prevented |-> p]

handleTabKey_NoWrap(s, shift) == Handled(s, FALSE)

\* modal.js handleTabKey
handleTabKey(s, shift) ==
    LET focusableElements == getFocusableElements(s)
        firstElement == focusableElements[1]
        lastElement == focusableElements[Len(focusableElements)]
    IN IF s.overlayHidden THEN Handled(s, FALSE)
       ELSE IF Len(focusableElements) = 0 THEN Handled(s, FALSE)
       ELSE IF shift /\ s.activeElement = firstElement
            THEN Handled(Focus(s, lastElement), TRUE)
       ELSE IF ~shift /\ s.activeElement = lastElement
            THEN Handled(Focus(s, firstElement), TRUE)
       ELSE Handled(s, FALSE)

\* A Tab key press: the document keydown listener of modal.js, then the
\* default action unless the listener prevented it.
PressTab(s, shift, land) ==
    LET h == IF s.isModalOpen THEN handleTabKey(s, shift) ELSE Handled(s, FALSE)
    IN IF h.prevented THEN h.state ELSE DefaultTab(h.state, shift, land)

ModalEscapeListener_Ignore(s) == s

\* modal.js setupKeyboardNavigation, Escape branch
ModalEscapeListener(s) == IF s.isModalOpen THEN closeModal(s) ELSE s

\* main.js initKeyboardNavigation, the document Escape listener
MainEscapeListener(s) ==
    IF s.bootstrapped /\ ~s.overlayHidden
    THEN DispatchClick(s, "close")
    ELSE s

\* An Escape key press: both document listeners, in registration order.
PressEscape(s) == MainEscapeListener(ModalEscapeListener(s))

(* -------------------------- main.js observer -------------------------- *)
\* main.js initFocusManagement: the observer callback's body for one record.
ObserveRecord(s) ==
    IF ~s.overlayHidden
    THEN LET s1 == [s EXCEPT !.lastFocusedElement = s.activeElement]
         IN Focus(s1, "close")
    ELSE IF s.lastFocusedElement # "null"
         THEN [Focus(s, s.lastFocusedElement) EXCEPT !.lastFocusedElement = "null"]
         ELSE s

RECURSIVE ObserveRecords(_, _)
ObserveRecords(s, n) ==
    IF n = 0 THEN s ELSE ObserveRecords(ObserveRecord(s), n - 1)

(* ------------------------------ timers -------------------------------- *)
\* The body of each setTimeout callback.
RunTimer(s, t) ==
    CASE t.kind = "focusClose" -> Focus(s, "close")
      [] t.kind = "confirmSetup" ->
            IF s.modalBody = "confirm"
            THEN Focus([s EXCEPT !.listeners["confirm-cancel"] = Append(@, t.id),
                                 !.listeners["confirm-ok"] = Append(@, t.id)],
                       "confirm-ok")
            ELSE s
      [] t.kind = "alertSetup" ->
            IF s.modalBody = "alert"
            THEN Focus([s EXCEPT !.listeners["alert-ok"] = Append(@, t.id)],
                       "alert-ok")
            ELSE s
      [] OTHER -> s

(* ------------------------------ dialogs ------------------------------- *)
\* modal.js showConfirmModal, the promise executor
showConfirmModal(s, title) ==
    LET d == s.dialogs + 1
        s1 == openModal([s EXCEPT !.dialogs = d], title, "confirm",
                        "confirm-modal", ResolveCallback(d, "false"))
    IN [s1 EXCEPT !.timers = Append(@, [kind |-> "confirmSetup", id |-> d, closed |-> FALSE])]

\* modal.js showAlertModal, the promise executor
showAlertModal(s, title) ==
    LET d == s.dialogs + 1
        s1 == openModal([s EXCEPT !.dialogs = d], title, "alert",
                        "alert-modal", ResolveCallback(d, "undefined"))
    IN [s1 EXCEPT !.timers = Append(@, [kind |-> "alertSetup", id |-> d, closed |-> FALSE])]


(* ===================== the repository feed ============================ *)
(* js/github-api.js, lines 1-392.  Text is a sequence of one-character    *)
(* strings, so that case folding and substring search are computed.  A    *)
(* nullable text field is a record: null, or its text.                    *)

(* ------------------------- responses of the API ----------------------- *)
Absent == [null |-> TRUE, text |-> << >>]
Text(t) == [null |-> FALSE, text |-> t]

NameTable == << <<"A", "b">>, <<"b", "a">>, <<"a">> >>
DescriptionTable == << Absent, Text(<<"B">>), Text(<< >>), Text(<<"a", "B">>) >>
LanguageTable == << Absent, Text(<<"B", "a">>) >>
StarTable == << 0, ForkStars, ForkStars + 1, StarredStars, StarredStars + 1 >>

\* The i-th repository of the account, as the API reports it.  updated_at
\* is the instant the ISO timestamp denotes; several repositories share one.
RepoAt(i) ==
    [ id |-> i,
      name |-> NameTable[(i % 3) + 1],
      description |-> DescriptionTable[(i % 4) + 1],
      language |-> LanguageTable[((i \div 2) % 2) + 1],
      stargazers_count |-> StarTable[(i % 5) + 1],
      fork |-> (i % 2 = 0),
      updated_at |-> (i * 3) % 4 ]

\* The body of a 2xx response: n repositories starting at the given one.
ResponseData(start, n) == [k \in 1..n |-> RepoAt(start + k - 1)]

\* An empty account, a few repositories, more than the page shows.
ResponseSizes == {0, 2, MaxResponse}
\* The repository a response starts at.
ResponseStarts == {1, 2}

\* What a fetch can end in: a 2xx response with a list, a response with
\* another status, or a rejection (transport failure, body that is no JSON).
Outcomes ==
    {[kind |-> "ok", data |-> ResponseData(start, n), status |-> 200, text |-> "OK"] :
         start \in ResponseStarts, n \in ResponseSizes}
    \cup {[kind |-> "http", data |-> << >>, status |-> 403, text |-> "Forbidden"],
          [kind |-> "reject", data |-> << >>, status |-> 0, text |-> "Failed to fetch"]}

Filters == {"all", "starred"}
SearchTexts == {<< >>, <<"a">>, <<"A", "B">>}

\* The current state of the feed as one record.
RepoCur ==
    [ repositories |-> repositories,
      filteredRepositories |-> filteredRepositories,
      currentFilter |-> currentFilter,
      loadingHidden |-> loadingHidden,
      errorHidden |-> errorHidden,
      errorMessage |-> errorMessage,
      retryInstalled |-> retryInstalled,
      emptyHidden |-> emptyHidden,
      gridCards |-> gridCards,
      activeButton |-> activeButton,
      searchValue |-> searchValue,
      bootStage |-> bootStage,
      inFlight |-> inFlight,
      debounceTimers |-> debounceTimers,
      timeout |-> timeout,
      repoLiveRegion |-> repoLiveRegion,
      repoOp |-> repoOp,
      lastData |-> lastData,
      lastInput |-> lastInput,
      burst |-> burst,
      renders |-> renders,
      gridKeyNav |-> gridKeyNav,
      windowOpens |-> windowOpens,
      race |-> race,
      focus |-> activeElement ]

RepoCommit(s) ==
    /\ repositories' = s.repositories
    /\ filteredRepositories' = s.filteredRepositories
    /\ currentFilter' = s.currentFilter
    /\ loadingHidden' = s.loadingHidden
    /\ errorHidden' = s.errorHidden
    /\ errorMessage' = s.errorMessage
    /\ retryInstalled' = s.retryInstalled
    /\ emptyHidden' = s.emptyHidden
    /\ gridCards' = s.gridCards
    /\ activeButton' = s.activeButton
    /\ searchValue' = s.searchValue
    /\ bootStage' = s.bootStage
    /\ inFlight' = s.inFlight
    /\ debounceTimers' = s.debounceTimers
    /\ timeout' = s.timeout
    /\ repoLiveRegion' = s.repoLiveRegion
    /\ repoOp' = s.repoOp
    /\ lastData' = s.lastData
    /\ lastInput' = s.lastInput
    /\ burst' = s.burst
    /\ renders' = s.renders
    /\ gridKeyNav' = s.gridKeyNav
    /\ windowOpens' = s.windowOpens
    /\ race' = s.race
    /\ activeElement' = s.focus
    /\ UNCHANGED << modalRest, themeVars, formatVars, pageVars >>

\* The state a new task of the feed starts from.
RepoBegin(name) ==
    [RepoCur EXCEPT !.repoOp = name, !.lastData = << >>, !.renders = 0,
                    !.windowOpens = << >>,
                    !.race = IF @ = "done" THEN "none" ELSE @,
                    !.lastInput = IF debounceTimers = << >> THEN << >> ELSE @]

(* --------------------------- text functions --------------------------- *)
\* String.prototype.toLowerCase on the alphabet of the model.
LowerChar(c) == CASE c = "A" -> "a" [] c = "B" -> "b" [] OTHER -> c
toLowerCase(t) == [i \in 1..Len(t) |-> LowerChar(t[i])]

\* String.prototype.includes
includes(hay, needle) ==
    \E k \in 0..(Len(hay) - Len(needle)) :
        SubSeq(hay, k + 1, k + Len(needle)) = needle

\* Array.prototype.sort with (a, b) => new Date(b.updated_at) - new
\* Date(a.updated_at): stable, most recently updated first.
RECURSIVE InsertByUpdated(_, _)
InsertByUpdated(sorted, r) ==
    IF sorted = << >> THEN << r >>
    ELSE IF sorted[Len(sorted)].updated_at >= r.updated_at
         THEN Append(sorted, r)
         ELSE Append(InsertByUpdated(SubSeq(sorted, 1, Len(sorted) - 1), r),
                     sorted[Len(sorted)])

RECURSIVE SortByUpdated(_)
SortByUpdated(seq) ==
    IF seq = << >> THEN << >>
    ELSE InsertByUpdated(SortByUpdated(SubSeq(seq, 1, Len(seq) - 1)),
                         seq[Len(seq)])

\* Array.prototype.slice(0, n)
slice(seq, n) == SubSeq(seq, 1, IF Len(seq) < n THEN Len(seq) ELSE n)

(* --------------------------- github-api.js ---------------------------- *)
\* github-api.js announceToScreenReader.  The region keeps the last message:
\* the timer that blanks it a second later changes nothing any code reads.
announceRepositories(s, message) == [s EXCEPT !.repoLiveRegion = message]

\* The element of the card createRepositoryCard made for a repository.
CardElement(id) == "repo-card:" \o ToString(id)
CardsOf(ids) == {CardElement(ids[i]) : i \in 1..Len(ids)}

renderRepositories_KeepCards(s) ==
    IF s.filteredRepositories = << >>
    THEN [s EXCEPT !.renders = @ + 1, !.emptyHidden = FALSE]
    ELSE [s EXCEPT !.renders = @ + 1, !.emptyHidden = TRUE,
                   !.gridCards = @ \o IdsOf(s.filteredRepositories)]

renderRepositories(s) ==
    LET cleared == [s EXCEPT !.renders = @ + 1, !.gridCards = << >>,
                             !.gridKeyNav = FALSE,
                             !.focus = IF @ \in CardsOf(s.gridCards) THEN "body" ELSE @]
    IN  IF s.filteredRepositories = << >>
        THEN [cleared EXCEPT !.emptyHidden = FALSE]
        ELSE [cleared EXCEPT !.emptyHidden = TRUE,
                             !.gridCards = IdsOf(s.filteredRepositories)]

showRepositoryError(s, message) ==
    [s EXCEPT !.errorMessage = message,
              !.errorHidden = FALSE,
              !.retryInstalled = TRUE]

\* loadRepositories up to its first await.
StartLoad(s) == [s EXCEPT !.loadingHidden = FALSE, !.errorHidden = TRUE]

KeepRepo(r) == ~r.fork \/ r.stargazers_count > ForkStars

ProcessResponse_NoSort(data) == slice(SelectSeq(data, KeepRepo), RepoLimit)

ProcessResponse(data) ==
    slice(SortByUpdated(SelectSeq(data, KeepRepo)), RepoLimit)

LoadSucceeds_UnlessBusy(s, data) ==
    IF s.inFlight > 0
    THEN [s EXCEPT !.loadingHidden = TRUE, !.lastData = data]
    ELSE LET list == ProcessResponse(data)
         IN  renderRepositories([s EXCEPT !.repositories = list,
                                          !.filteredRepositories = list,
                                          !.loadingHidden = TRUE,
                                          !.lastData = data])

\* loadRepositories after a 2xx response with a list.
LoadSucceeds(s, data) ==
    LET list == ProcessResponse(data)
    IN  renderRepositories([s EXCEPT !.repositories = list,
                                     !.filteredRepositories = list,
                                     !.loadingHidden = TRUE,
                                     !.lastData = data])

LoadFails_Silent(s, message) == [s EXCEPT !.loadingHidden = TRUE]

\* The catch block of loadRepositories.
LoadFails(s, message) ==
    showRepositoryError([s EXCEPT !.loadingHidden = TRUE], message)

\* error.message of what loadRepositories throws or fetch rejects with.
FailureMessage(o) ==
    IF o.kind = "http"
    THEN "GitHub API Error: " \o ToString(o.status) \o " " \o o.text
    ELSE o.text

\* loadRepositories from the settling of fetch to its return.
ResumeLoad(s, o) ==
    IF o.kind = "ok" THEN LoadSucceeds(s, o.data)
    ELSE LoadFails(s, FailureMessage(o))

MatchesSearch(repo, searchQuery) ==
    \/ searchQuery = << >>
    \/ includes(toLowerCase(repo.name), toLowerCase(searchQuery))
    \/ /\ ~repo.description.null /\ repo.description.text # << >>
       /\ includes(toLowerCase(repo.description.text), toLowerCase(searchQuery))
    \/ /\ ~repo.language.null /\ repo.language.text # << >>
       /\ includes(toLowerCase(repo.language.text), toLowerCase(searchQuery))

MatchesFilter(repo, filter) ==
    \/ filter = "all"
    \/ filter = "starred" /\ repo.stargazers_count > StarredStars

ResultsFound(n) ==
    ToString(n) \o " " \o (IF n = 1 THEN "repository" ELSE "repositories") \o " found"

applyFilters_NameOnly(s, searchTerm) ==
    LET searchQuery == IF searchTerm # << >> THEN searchTerm ELSE s.searchValue
        Keep(repo) == /\ \/ searchQuery = << >>
                         \/ includes(toLowerCase(repo.name), toLowerCase(searchQuery))
                      /\ MatchesFilter(repo, s.currentFilter)
        shown == renderRepositories(
                     [s EXCEPT !.filteredRepositories = SelectSeq(s.repositories, Keep)])
    IN  announceRepositories(shown, ResultsFound(Len(shown.filteredRepositories)))

applyFilters(s, searchTerm) ==
    LET searchQuery == IF searchTerm # << >> THEN searchTerm ELSE s.searchValue
        Keep(repo) == /\ MatchesSearch(repo, searchQuery)
                      /\ MatchesFilter(repo, s.currentFilter)
        shown == renderRepositories(
                     [s EXCEPT !.filteredRepositories = SelectSeq(s.repositories, Keep)])
    IN  announceRepositories(shown, ResultsFound(Len(shown.filteredRepositories)))

\* clearTimeout
clearTimeout(s, id) ==
    [s EXCEPT !.debounceTimers = SelectSeq(@, LAMBDA t : t.id # id)]

\* setTimeout(later, wait): the new timer takes the smallest free handle.
FreeHandle(s) ==
    CHOOSE h \in 1..(Len(s.debounceTimers) + 1) :
        \A i \in 1..Len(s.debounceTimers) : s.debounceTimers[i].id # h

setTimeoutLater(s, wait) ==
    LET h == FreeHandle(s)
    IN  [s EXCEPT !.debounceTimers = Append(@, [id |-> h, remaining |-> wait]),
                  !.timeout = h]

executedFunction_NoClear(s) == setTimeoutLater(s, DebounceWait)

\* The function debounce returns, called for an input event.
executedFunction(s) == setTimeoutLater(clearTimeout(s, s.timeout), DebounceWait)

later_Captured(s) == applyFilters(clearTimeout(s, s.timeout), s.lastInput)

\* The timer callback of debounce: e.target.value is read when it runs.
later(s) == applyFilters(clearTimeout(s, s.timeout), s.searchValue)

searchKeydownEscape_KeepText(s) ==
    [applyFilters(s, << >>) EXCEPT !.focus = "body"]

\* The keydown listener of the search field, for Escape.
searchKeydownEscape(s) ==
    [applyFilters([s EXCEPT !.searchValue = << >>], << >>) EXCEPT !.focus = "body"]

\* The click listener of a category button.
filterButtonClick(s, f) ==
    applyFilters([s EXCEPT !.activeButton = f, !.currentFilter = f], << >>)

\* The click listener createRepositoryCard gives a card: window.open of the
\* repository's URL, which the repository's id stands for.
repoCardClick(s, id) == [s EXCEPT !.windowOpens = Append(@, id)]

\* The keydown listeners of a card for Enter and Space, in the order they
\* were added: the one of createRepositoryCard and, on the cards that
\* initKeyboardNavigation of main.js found, its own.  Each calls click().
repoCardKeydown(s, id) ==
    LET own == repoCardClick(s, id)
    IN  IF s.gridKeyNav THEN repoCardClick(own, id) ELSE own

\* main.js initKeyboardNavigation, as far as the feed goes: the cards in
\* the grid when init() resumes get its keydown listener.
initKeyboardNavigationOfFeed(s) == [s EXCEPT !.gridKeyNav = s.gridCards # << >>]

\* The loads awaiting their fetch.
InFlight == inFlight + (IF bootStage = "loading" THEN 1 ELSE 0)

\* (history) A load resolves while n others are in flight.
NoteResolution(s, n) ==
    [s EXCEPT !.race = IF n > 0 THEN "open"
                       ELSE IF @ = "open" THEN "done" ELSE "none"]

(* ----------------------- the feed's state machine --------------------- *)
\* After the module is evaluated and before init() calls initGitHubAPI().
\* The state panels of the markup start hidden and button "all" active.
RepoStart ==
    /\ repositories = << >>
    /\ filteredRepositories = << >>
    /\ currentFilter = "all"
    /\ loadingHidden = TRUE
    /\ errorHidden = TRUE
    /\ errorMessage = ""
    /\ retryInstalled = FALSE
    /\ emptyHidden = TRUE
    /\ gridCards = << >>
    /\ activeButton = "all"
    /\ searchValue = << >>
    /\ bootStage = "idle"
    /\ inFlight = 0
    /\ debounceTimers = << >>
    /\ timeout = 0
    /\ repoLiveRegion = ""
    /\ repoOp = "init"
    /\ lastData = << >>
    /\ lastInput = << >>
    /\ burst = 0
    /\ renders = 0
    /\ gridKeyNav = FALSE
    /\ windowOpens = << >>
    /\ race = "none"

\* init() calls initGitHubAPI(), which runs loadRepositories up to its fetch.
CallInitGitHubAPI ==
    /\ bootStage = "idle"
    /\ RepoCommit(StartLoad([RepoBegin("start") EXCEPT !.bootStage = "loading"]))

\* The fetch of initGitHubAPI's load settles; loadRepositories returns,
\* initGitHubAPI installs the listeners of the buttons and of the field,
\* and init() goes on to initKeyboardNavigation.
BootLoadCompletes ==
    /\ bootStage = "loading"
    /\ \E o \in Outcomes :
          RepoCommit(initKeyboardNavigationOfFeed(
              [ResumeLoad(NoteResolution(RepoBegin(o.kind), inFlight), o)
                   EXCEPT !.bootStage = "ready"]))

\* A call of the exported loadRepositories.
CallLoadRepositories ==
    /\ inFlight < MaxLoads
    /\ RepoCommit(StartLoad([RepoBegin("start") EXCEPT !.inFlight = @ + 1]))

\* The onclick handler showRepositoryError gave the retry button.
ClickRetry ==
    /\ retryInstalled /\ ~errorHidden
    /\ inFlight < MaxLoads
    /\ RepoCommit(StartLoad([RepoBegin("retry") EXCEPT !.errorHidden = TRUE,
                                                       !.inFlight = @ + 1]))

LoadCompletes ==
    /\ inFlight > 0
    /\ \E o \in Outcomes :
          RepoCommit(ResumeLoad([NoteResolution(RepoBegin(o.kind), InFlight - 1)
                                     EXCEPT !.inFlight = @ - 1], o))

ClickFilterButton ==
    /\ bootStage = "ready"
    /\ \E f \in Filters : RepoCommit(filterButtonClick(RepoBegin("filter"), f))

FocusSearch ==
    /\ activeElement = "body"
    /\ RepoCommit([RepoBegin("focus") EXCEPT !.focus = "repo-search"])

BlurSearch ==
    /\ activeElement = "repo-search"
    /\ RepoCommit([RepoBegin("blur") EXCEPT !.focus = "body"])

\* The user edits the field: one input event.  Its listener exists once
\* setupRepositorySearch has run.
TypeSearch ==
    /\ activeElement = "repo-search"
    /\ \E v \in SearchTexts \ {searchValue} :
          LET typed == [RepoBegin("input") EXCEPT !.searchValue = v,
                                                  !.lastInput = v]
              after == IF bootStage = "ready"
                       THEN executedFunction([typed EXCEPT !.burst = IF @ < 2 THEN @ + 1 ELSE @])
                       ELSE typed
          IN  /\ Len(after.debounceTimers) <= MaxPending
              /\ RepoCommit(after)

PressEscapeInSearch ==
    /\ activeElement = "repo-search"
    /\ bootStage = "ready"
    /\ RepoCommit(searchKeydownEscape(RepoBegin("escape")))

\* 100 ms pass; no timer is left behind its time.
Tick ==
    /\ debounceTimers # << >>
    /\ \A i \in 1..Len(debounceTimers) : debounceTimers[i].remaining > 0
    /\ RepoCommit([RepoBegin("tick") EXCEPT
           !.debounceTimers = [i \in 1..Len(@) |->
                                  [@[i] EXCEPT !.remaining = @ - 100]]])

\* The oldest timer that is due runs the callback of debounce.
DebounceFires ==
    /\ \E i \in 1..Len(debounceTimers) :
          /\ debounceTimers[i].remaining = 0
          /\ \A j \in 1..(i - 1) : debounceTimers[j].remaining > 0
          /\ RepoCommit(later([RepoBegin("debounce") EXCEPT
                 !.burst = 0,
                 !.debounceTimers = SelectSeq(@, LAMBDA t : t.id # debounceTimers[i].id)]))

\* The user moves the focus to a card of the grid.
FocusRepoCard ==
    /\ \E i \in 1..Len(gridCards) :
          /\ activeElement # CardElement(gridCards[i])
          /\ RepoCommit([RepoBegin("focus") EXCEPT !.focus = CardElement(gridCards[i])])

\* The user clicks a card; the click focuses it.
ClickRepoCard ==
    /\ \E i \in 1..Len(gridCards) :
          RepoCommit(repoCardClick([RepoBegin("click card")
                                       EXCEPT !.focus = CardElement(gridCards[i])],
                                   gridCards[i]))

\* The user presses Enter or Space on the focused card.
KeyOnRepoCard ==
    /\ \E i \in 1..Len(gridCards), key \in Keys :
          /\ activeElement = CardElement(gridCards[i])
          /\ RepoCommit(repoCardKeydown(RepoBegin("key card"), gridCards[i]))

RepoNext ==
    \/ CallInitGitHubAPI
    \/ BootLoadCompletes
    \/ CallLoadRepositories
    \/ ClickRetry
    \/ LoadCompletes
    \/ ClickFilterButton
    \/ FocusSearch
    \/ BlurSearch
    \/ TypeSearch
    \/ PressEscapeInSearch
    \/ Tick
    \/ DebounceFires

(* ========================= the theme store ============================ *)
(* js/github-api.js, lines 394-687.                                       *)

\* localStorage.getItem returns null for a missing item.
NoItem == "<null>"
\* What the item can hold when the page loads: nothing, a value the store
\* wrote, or a string some other code or the user put there.
StoredValues == {NoItem, "light", "dark", "blue", ""}
\* localStorage works; setItem throws (quota exceeded); every call throws.
StorageModes == {"ok", "quota", "throws"}
Themes == {"light", "dark"}
\* The arguments forceSetTheme is called with.
ForcedThemes == {"light", "dark", "blue"}

\* JavaScript truthiness of a string or null.
Truthy(v) == v # NoItem /\ v # ""

ThemeCur ==
    [ currentTheme |-> currentTheme,
      dataTheme |-> dataTheme,
      storedItem |-> storedItem,
      storageMode |-> storageMode,
      osTheme |-> osTheme,
      themeInits |-> themeInits,
      toggleLabel |-> toggleLabel,
      themeAnnouncement |-> themeAnnouncement,
      themeOp |-> themeOp,
      themeEvents |-> themeEvents,
      userChose |-> userChose,
      themeBefore |-> themeBefore,
      themeListeners |-> themeListeners,
      deliveries |-> deliveries,
      threw |-> threw ]

ThemeCommit(s) ==
    /\ currentTheme' = s.currentTheme
    /\ dataTheme' = s.dataTheme
    /\ storedItem' = s.storedItem
    /\ storageMode' = s.storageMode
    /\ osTheme' = s.osTheme
    /\ themeInits' = s.themeInits
    /\ toggleLabel' = s.toggleLabel
    /\ themeAnnouncement' = s.themeAnnouncement
    /\ themeOp' = s.themeOp
    /\ themeEvents' = s.themeEvents
    /\ userChose' = s.userChose
    /\ themeBefore' = s.themeBefore
    /\ themeListeners' = s.themeListeners
    /\ deliveries' = s.deliveries
    /\ threw' = s.threw
    /\ UNCHANGED << modalRest, activeElement, repoVars, formatVars, pageVars >>

\* The state a new task of the theme store starts from.
ThemeBegin(name) ==
    [ThemeCur EXCEPT !.themeOp = name, !.themeEvents = << >>,
                     !.themeBefore = currentTheme,
                     !.deliveries = << >>, !.threw = FALSE]

getSystemTheme(s) == s.osTheme

getStoredTheme(s) ==
    IF s.storageMode = "throws" THEN NoItem ELSE s.storedItem

storeTheme_NoCatch(s, theme) ==
    IF s.storageMode = "ok" THEN [s EXCEPT !.storedItem = theme]
    ELSE [s EXCEPT !.threw = TRUE]

\* The catch block keeps the exception of setItem inside.
storeTheme(s, theme) ==
    IF s.storageMode = "ok" THEN [s EXCEPT !.storedItem = theme] ELSE s

dispatchThemeChange_LastFirst(s, theme) ==
    [s EXCEPT !.themeEvents = Append(@, theme),
              !.deliveries = @ \o [l \in 1..s.themeListeners |->
                                      [listener |-> s.themeListeners + 1 - l,
                                       value |-> theme]]]

\* document.dispatchEvent(themeChangeEvent): the listeners onThemeChange
\* added run in the order they were added, each with e.detail.theme.
dispatchThemeChange(s, theme) ==
    [s EXCEPT !.themeEvents = Append(@, theme),
              !.deliveries = @ \o [l \in 1..s.themeListeners |->
                                      [listener |-> l, value |-> theme]]]

updateThemeToggleButton(s, theme) ==
    [s EXCEPT !.toggleLabel = IF theme = "dark" THEN "Switch to light mode"
                              ELSE "Switch to dark mode"]

setTheme(s, theme, store) ==
    LET applied == [s EXCEPT !.currentTheme = theme,
                             !.dataTheme = IF theme = "dark" THEN "dark" ELSE "light"]
        labelled == updateThemeToggleButton(applied, theme)
        kept == IF store THEN storeTheme(labelled, theme) ELSE labelled
    IN  dispatchThemeChange(kept, kept.currentTheme)

announceThemeChange(s, theme) ==
    [s EXCEPT !.themeAnnouncement = "Switched to " \o theme \o " mode"]

toggleTheme_NoStore(s) ==
    LET newTheme == IF s.currentTheme = "light" THEN "dark" ELSE "light"
    IN  announceThemeChange(setTheme(s, newTheme, FALSE), newTheme)

toggleTheme(s) ==
    LET newTheme == IF s.currentTheme = "light" THEN "dark" ELSE "light"
    IN  announceThemeChange(setTheme(s, newTheme, TRUE), newTheme)

\* The click listeners of .theme-toggle: each initThemeToggle call added one.
RECURSIVE RunToggleListeners(_, _)
RunToggleListeners(s, n) ==
    IF n = 0 THEN s ELSE RunToggleListeners(toggleTheme(s), n - 1)

\* The change listener of the media query.
systemThemeListener(s) ==
    IF ~Truthy(getStoredTheme(s))
    THEN setTheme(s, getSystemTheme(s), FALSE)
    ELSE s

RECURSIVE RunSystemListeners(_, _)
RunSystemListeners(s, n) ==
    IF n = 0 THEN s ELSE RunSystemListeners(systemThemeListener(s), n - 1)

initThemeToggle_SystemFirst(s) ==
    LET applied == setTheme(s, getSystemTheme(s), FALSE)
    IN  updateThemeToggleButton([applied EXCEPT !.themeInits = @ + 1],
                                applied.currentTheme)

initThemeToggle(s) ==
    LET systemTheme == getSystemTheme(s)
        storedTheme == getStoredTheme(s)
        initialTheme == IF Truthy(storedTheme) THEN storedTheme ELSE systemTheme
        applied == setTheme(s, initialTheme, FALSE)
    IN  updateThemeToggleButton([applied EXCEPT !.themeInits = @ + 1],
                                applied.currentTheme)

forceSetTheme_Unchecked(s, theme) == setTheme(s, theme, TRUE)

forceSetTheme(s, theme) ==
    IF theme = "light" \/ theme = "dark" THEN setTheme(s, theme, TRUE) ELSE s

resetToSystemTheme_KeepStored(s) == setTheme(s, getSystemTheme(s), TRUE)

resetToSystemTheme(s) ==
    LET applied == setTheme(s, getSystemTheme(s), TRUE)
    IN  IF applied.storageMode = "throws" THEN applied
        ELSE [applied EXCEPT !.storedItem = NoItem]

\* The function the module calls while it is evaluated.
initializeThemeImmediately(s) ==
    LET storedTheme == getStoredTheme(s)
        systemTheme == getSystemTheme(s)
        initialTheme == IF Truthy(storedTheme) THEN storedTheme ELSE systemTheme
    IN  [s EXCEPT !.dataTheme = IF initialTheme = "dark" THEN "dark" ELSE "light",
                  !.currentTheme = initialTheme]

(* -------------------- the theme store's state machine ----------------- *)
\* The page before the module is evaluated: currentTheme = 'light'
\* (line 402), no data-theme attribute, no listener.
FreshPage(stored, mode, os) ==
    [ currentTheme |-> "light",
      dataTheme |-> "",
      storedItem |-> stored,
      storageMode |-> mode,
      osTheme |-> os,
      themeInits |-> 0,
      toggleLabel |-> "",
      themeAnnouncement |-> "",
      themeOp |-> "load",
      themeEvents |-> << >>,
      userChose |-> FALSE,
      themeBefore |-> "light",
      themeListeners |-> 0,
      deliveries |-> << >>,
      threw |-> FALSE ]

ThemeIs(s) ==
    /\ currentTheme = s.currentTheme
    /\ dataTheme = s.dataTheme
    /\ storedItem = s.storedItem
    /\ storageMode = s.storageMode
    /\ osTheme = s.osTheme
    /\ themeInits = s.themeInits
    /\ toggleLabel = s.toggleLabel
    /\ themeAnnouncement = s.themeAnnouncement
    /\ themeOp = s.themeOp
    /\ themeEvents = s.themeEvents
    /\ userChose = s.userChose
    /\ themeBefore = s.themeBefore
    /\ themeListeners = s.themeListeners
    /\ deliveries = s.deliveries
    /\ threw = s.threw

\* After the module is evaluated, for every content of the storage.
ThemeStart ==
    \E stored \in StoredValues, mode \in StorageModes, os \in Themes :
        ThemeIs(initializeThemeImmediately(FreshPage(stored, mode, os)))

\* init() of main.js, or any importer, calls initThemeToggle.
CallInitThemeToggle ==
    /\ themeInits < MaxThemeInits
    /\ ThemeCommit(initThemeToggle(ThemeBegin("initThemeToggle")))

\* A click, Enter or Space on .theme-toggle.
ClickThemeToggle ==
    /\ themeInits > 0
    /\ ThemeCommit([RunToggleListeners(ThemeBegin("toggle"), themeInits)
                       EXCEPT !.userChose = TRUE])

CallForceSetTheme ==
    LET call(theme) == [forceSetTheme(ThemeBegin("forceSet " \o theme), theme)
                           EXCEPT !.userChose = @ \/ theme \in Themes]
    IN  /\ \E theme \in ForcedThemes : ThemeCommit(call(theme))

CallResetToSystemTheme ==
    LET after == [resetToSystemTheme(ThemeBegin("reset")) EXCEPT !.userChose = FALSE]
    IN  /\ ThemeCommit(after)

\* The OS colour scheme changes; the media query notifies its listeners.
SystemThemeChanges ==
    \E os \in Themes \ {osTheme} :
        ThemeCommit(RunSystemListeners([ThemeBegin("system") EXCEPT !.osTheme = os],
                                       themeInits))

\* The page is loaded again: the module is evaluated on a fresh document,
\* with the storage as the last page left it.
ReloadPage ==
    /\ ThemeCommit([initializeThemeImmediately(FreshPage(storedItem, storageMode, osTheme))
                       EXCEPT !.themeOp = "reload", !.themeBefore = currentTheme])

\* An importer registers a callback with onThemeChange.
CallOnThemeChange ==
    /\ themeListeners < MaxListeners
    /\ ThemeCommit([ThemeBegin("subscribe") EXCEPT !.themeListeners = @ + 1])

ThemeNext ==
    \/ CallOnThemeChange
    \/ CallInitThemeToggle
    \/ ClickThemeToggle
    \/ CallForceSetTheme
    \/ CallResetToSystemTheme
    \/ SystemThemeChanges
    \/ ReloadPage

\* The theme store of a page that is left alone.
ThemeParked ==
    ThemeIs(initializeThemeImmediately(FreshPage(NoItem, "ok", "light")))


(* ===================== formatting and markup ========================== *)
(* js/github-api.js 148-217 and 300-352, js/main.js 481-530 and 568-796,  *)
(* js/modal.js 245-336 and 386-395.  Time is measured in hours.  A text   *)
(* put into markup is a sequence of tokens: one token per character of a  *)
(* field, a character reference, or a formatted number.                   *)

(* --------------------------- formatNumber ----------------------------- *)
\* x doubled k times, modulo m: (x * 2^k) % m without leaving 32 bits.
RECURSIVE Doubled(_, _, _)
Doubled(x, k, m) == IF k = 0 THEN x % m ELSE Doubled((2 * x) % m, k - 1, m)

\* The binary exponent of num / unit >= 1: the largest e with
\* unit * 2^e <= num.
RECURSIVE Exponent(_, _, _)
Exponent(num, unit, e) ==
    IF 2 * unit > num THEN e ELSE Exponent(num, 2 * unit, e + 1)

\* num / unit is the IEEE 754 double nearest to the quotient, ties to even:
\* a multiple of 2^(e - 52).  Whether that double is below, at or above the
\* quotient follows from the remainder of num * 2^(52 - e) by unit.
QuotientError(num, unit) ==
    LET e == Exponent(num, unit, 0)
        scaled == Doubled(num % (2 * unit), 52 - e, 2 * unit)
        rest == scaled % unit
        odd == scaled >= unit
    IN  CASE rest = 0 -> "exact"
          [] rest # 0 /\ 2 * rest < unit -> "below"
          [] 2 * rest > unit -> "above"
          [] OTHER -> IF odd THEN "above" ELSE "below"

\* (num / unit).toFixed(1), in tenths: the integer n for which n / 10 is
\* nearest to the double, the larger n when two are as near.  The error of
\* the double decides only where the quotient lies midway between tenths.
toFixed1(num, unit) ==
    LET whole == (10 * num) \div unit
        rest == (10 * num) % unit
    IN  IF 2 * rest < unit THEN whole
        ELSE IF 2 * rest > unit THEN whole + 1
        ELSE IF QuotientError(num, unit) = "below" THEN whole
        ELSE whole + 1

\* The digits toFixed(1) prints, after .replace(/\.0$/, "").
WithoutPointZero(tenths) ==
    IF tenths % 10 = 0 THEN ToString(tenths \div 10)
    ELSE ToString(tenths \div 10) \o "." \o ToString(tenths % 10)

formatNumber(num) ==
    IF num >= 1000000 THEN WithoutPointZero(toFixed1(num, 1000000)) \o "M"
    ELSE IF num >= 1000 THEN WithoutPointZero(toFixed1(num, 1000)) \o "k"
    ELSE ToString(num)

(* ------------------------ formatRelativeTime -------------------------- *)
\* new Date(), in hours since the epoch.
Now == 500000

\* Math.abs
abs(x) == IF x < 0 THEN 0 - x ELSE x

formatRelativeTime_Signed(date, now) ==
    LET diffDays == (now - date) \div DayLength
    IN  IF diffDays = 0 THEN "today"
        ELSE IF diffDays = 1 THEN "yesterday"
        ELSE ToString(diffDays) \o " days ago"

formatRelativeTime(date, now) ==
    LET diffTime == abs(now - date)
        diffDays == diffTime \div DayLength
        weeks == diffDays \div 7
        months == diffDays \div 30
        years == diffDays \div 365
    IN  IF diffDays = 0 THEN "today"
        ELSE IF diffDays = 1 THEN "yesterday"
        ELSE IF diffDays < 7 THEN ToString(diffDays) \o " days ago"
        ELSE IF diffDays < 30
             THEN ToString(weeks) \o " "
                  \o (IF weeks = 1 THEN "week" ELSE "weeks") \o " ago"
        ELSE IF diffDays < 365
             THEN ToString(months) \o " "
                  \o (IF months = 1 THEN "month" ELSE "months") \o " ago"
        ELSE ToString(years) \o " "
             \o (IF years = 1 THEN "year" ELSE "years") \o " ago"

(* ----------------------------- escapeHtml ----------------------------- *)
\* The map of escapeHtml, the same in the three files.
EntityOf(c) ==
    CASE c = "&" -> "&amp;"
      [] c = "<" -> "&lt;"
      [] c = ">" -> "&gt;"
      [] c = "\"" -> "&quot;"
      [] c = "'" -> "&#039;"
      [] OTHER -> c

escapeHtml(text) == [i \in 1..Len(text) |-> EntityOf(text[i])]

\* One ${...} of a template literal: the field and the tokens it inserts.
Insertion(field, tokens) == [field |-> field, text |-> tokens]

\* value ? ... : "" and value || fallback: null and "" are falsy.
Given(value) == ~value.null /\ value.text # << >>

(* ------------------------- createRepositoryCard ----------------------- *)
\* card.innerHTML of createRepositoryCard, lines 174-214.
RepositoryCardHTML(repo, now) ==
    << Insertion("name", escapeHtml(repo.name)) >>
    \o (IF repo.stargazers_count > 50
        THEN << Insertion("stargazers_count", << ToString(repo.stargazers_count) >>),
                Insertion("stargazers_count", << formatNumber(repo.stargazers_count) >>) >>
        ELSE << >>)
    \o (IF Given(repo.description)
        THEN << Insertion("description", escapeHtml(repo.description.text)) >>
        ELSE << >>)
    \o (IF Given(repo.language)
        THEN << Insertion("language", toLowerCase(repo.language.text)),
                Insertion("language", escapeHtml(repo.language.text)) >>
        ELSE << >>)
    \o << Insertion("updated_at", << formatRelativeTime(repo.updated_at, now) >>) >>

(* --------------------------- project markup --------------------------- *)
\* card.innerHTML of createProjectCard, main.js 501-527.
ProjectCardHTML(project) ==
    << Insertion("image", project.image),
       Insertion("title", escapeHtml(project.title)),
       Insertion("title", escapeHtml(project.title)),
       Insertion("description", escapeHtml(project.description)) >>
    \o [i \in 1..Len(project.tags) |-> Insertion("tag", escapeHtml(project.tags[i]))]
    \o << Insertion("link", project.link) >>

\* The pairs of Object.entries(details.metrics), flattened.
MetricInsertions(metrics) ==
    [i \in 1..(2 * Len(metrics)) |->
        IF i % 2 = 1
        THEN Insertion("metric label", escapeHtml(metrics[(i + 1) \div 2].k))
        ELSE Insertion("metric value", escapeHtml(metrics[i \div 2].v))]

\* main.js createProjectModalContent, lines 568-782.
createProjectModalContent(project) ==
    LET details == project.details
    IN  << Insertion("image", project.image),
           Insertion("title", escapeHtml(project.title)) >>
        \o [i \in 1..Len(project.tags) |-> Insertion("tag", escapeHtml(project.tags[i]))]
        \o << Insertion("description", escapeHtml(project.description)),
              Insertion("overview", escapeHtml(details.overview)) >>
        \o [i \in 1..Len(details.features) |->
               Insertion("feature", escapeHtml(details.features[i]))]
        \o [i \in 1..Len(details.technologies) |->
               Insertion("technology", escapeHtml(details.technologies[i]))]
        \o (IF details.hasMetrics THEN MetricInsertions(details.metrics) ELSE << >>)
        \o << Insertion("challenges", escapeHtml(details.challenges)),
              Insertion("impact", escapeHtml(details.impact)),
              Insertion("link", project.link) >>

(* --------------------------- dialog markup ---------------------------- *)
\* modal.js showConfirmModal, the template of lines 254-266.
ConfirmContent(message, options) ==
    << Insertion("message", escapeHtml(message)),
       Insertion("cancelText", IF Given(options.cancelText)
                               THEN options.cancelText.text ELSE << "Cancel" >>),
       Insertion("confirmText", IF Given(options.confirmText)
                                THEN options.confirmText.text ELSE << "OK" >>) >>

\* modal.js showAlertModal, the template of lines 327-335.
AlertContent(message, options) ==
    << Insertion("message", escapeHtml(message)),
       Insertion("buttonText", IF Given(options.buttonText)
                               THEN options.buttonText.text ELSE << "OK" >>) >>

(* -------------------- inputs of the formatting calls ------------------ *)
\* Star counts: every count up to the first abbreviated ones, every count
\* around one million, and multiples of 50 and of 50000 (the counts whose
\* quotient by 1000 or by 1000000 lies midway between tenths are among
\* them).
StarCounts ==
    (0..1100) \cup (999900..1000100)
    \cup {50 * k : k \in 0..MaxSteps} \cup {50000 * k : k \in 0..MaxSteps}

\* Timestamps up to MaxDays whole days before and after now, at the first
\* and the last hour of each day's distance.
Timestamps ==
    {Now + sign * (DayLength * d + h) :
        d \in 0..MaxDays, h \in {0, DayLength - 1}, sign \in {-1, 1}}

Benign == << "a" >>
\* Field texts: plain, a tag, and each of the other significant characters.
FieldTexts ==
    { Benign, << "<", "B", ">" >>, << "\"" >>, << "&", "a" >>, << "'" >> }
\* What a nullable field can hold.
FieldValues == {Absent, Text(<< >>)} \cup {Text(t) : t \in FieldTexts}

RepoFields == {"name", "description", "language"}
ProjectFields ==
    {"title", "description", "tag", "image", "link", "overview", "feature",
     "technology", "metric label", "metric value", "challenges", "impact"}
ConfirmFields == {"message", "cancelText", "confirmText"}
AlertFields == {"message", "buttonText"}

\* A repository whose given field holds the given value.
RepoWith(field, value, stars) ==
    [ name |-> IF field = "name" /\ Given(value) THEN value.text ELSE Benign,
      description |-> IF field = "description" THEN value ELSE Text(Benign),
      language |-> IF field = "language" THEN value ELSE Text(Benign),
      stargazers_count |-> stars,
      updated_at |-> Now - 2 * DayLength ]

\* A catalog entry whose given field holds the given text.
ProjectWith(field, t, withMetrics) ==
    LET f(name) == IF name = field THEN t ELSE Benign
    IN  [ title |-> f("title"),
          description |-> f("description"),
          tags |-> << Benign, f("tag") >>,
          image |-> f("image"),
          link |-> f("link"),
          details |-> [ overview |-> f("overview"),
                        features |-> << f("feature"), Benign >>,
                        technologies |-> << f("technology") >>,
                        hasMetrics |-> withMetrics,
                        metrics |-> << [k |-> f("metric label"),
                                        v |-> f("metric value")] >>,
                        challenges |-> f("challenges"),
                        impact |-> f("impact") ] ]

(* ------------------------ the formatting calls ------------------------ *)
\* A call: the function, its numeric argument, and the field of its
\* record argument that holds the given value.
Call(fn, num, field, value, flag) ==
    [fn |-> fn, num |-> num, field |-> field, value |-> value, flag |-> flag]

FormatCalls ==
    {Call("formatNumber", num, "", Absent, FALSE) : num \in StarCounts}
    \cup {Call("formatRelativeTime", date, "", Absent, FALSE) : date \in Timestamps}
    \cup {Call("createRepositoryCard", stars, field, value, FALSE) :
              stars \in {0, 51, 1500}, field \in RepoFields, value \in FieldValues}
    \cup {Call("createProjectCard", 0, field, Text(t), FALSE) :
              field \in ProjectFields, t \in FieldTexts}
    \cup {Call("createProjectModalContent", 0, field, Text(t), withMetrics) :
              field \in ProjectFields, t \in FieldTexts, withMetrics \in BOOLEAN}
    \cup {Call("showConfirmModal", 0, field, value, FALSE) :
              field \in ConfirmFields, value \in FieldValues}
    \cup {Call("showAlertModal", 0, field, value, FALSE) :
              field \in AlertFields, value \in FieldValues}

\* The call returns: its string, or the texts it has put into markup.
Return(text, inserted) ==
    /\ fmtOp' = fmtCall.fn
    /\ fmtText' = text
    /\ markup' = inserted
    /\ UNCHANGED << fmtCall, modalRest, activeElement, repoVars, themeVars, pageVars >>

Called(fn) == fmtOp = "none" /\ fmtCall.fn = fn

\* The arguments of a dialog: the message, and the options given.
MessageOf(call) ==
    IF call.field = "message" /\ Given(call.value) THEN call.value.text ELSE Benign
OptionOf(call, name) == IF call.field = name THEN call.value ELSE Absent

\* No call is made on a page that is left alone.
FormatParked ==
    /\ fmtOp = "none"
    /\ fmtCall = Call("none", 0, "", Absent, FALSE)
    /\ fmtText = ""
    /\ markup = << >>

\* A call about to be made, with any of the arguments.
FormatStart ==
    /\ fmtOp = "none"
    /\ fmtCall \in FormatCalls
    /\ fmtText = ""
    /\ markup = << >>

CallFormatNumber ==
    /\ Called("formatNumber")
    /\ Return(formatNumber(fmtCall.num), << >>)

CallFormatRelativeTime ==
    /\ Called("formatRelativeTime")
    /\ Return(formatRelativeTime(fmtCall.num, Now), << >>)

RenderRepositoryCard ==
    /\ Called("createRepositoryCard")
    /\ Return("", RepositoryCardHTML(RepoWith(fmtCall.field, fmtCall.value,
                                              fmtCall.num), Now))

RenderProjectCard ==
    /\ Called("createProjectCard")
    /\ Return("", ProjectCardHTML(ProjectWith(fmtCall.field, fmtCall.value.text,
                                              FALSE)))

RenderProjectModalContent ==
    /\ Called("createProjectModalContent")
    /\ Return("", createProjectModalContent(
                      ProjectWith(fmtCall.field, fmtCall.value.text, fmtCall.flag)))

RenderConfirmContent ==
    /\ Called("showConfirmModal")
    /\ Return("", ConfirmContent(MessageOf(fmtCall),
                                 [cancelText |-> OptionOf(fmtCall, "cancelText"),
                                  confirmText |-> OptionOf(fmtCall, "confirmText")]))

RenderAlertContent ==
    /\ Called("showAlertModal")
    /\ Return("", AlertContent(MessageOf(fmtCall),
                               [buttonText |-> OptionOf(fmtCall, "buttonText")]))

FormatNext ==
    \/ CallFormatNumber
    \/ CallFormatRelativeTime
    \/ RenderRepositoryCard
    \/ RenderProjectCard
    \/ RenderProjectModalContent
    \/ RenderConfirmContent
    \/ RenderAlertContent


(* ====================== the modal's state machine ====================== *)
\* After initModal() and initProjects(): the modal is Closed, nothing has
\* been announced, and init() is suspended in initGitHubAPI().  The
\* stylesheet is not part of the scripts, so both of its relevant variants
\* are initial states.
ModalStart ==
    /\ isModalOpen = FALSE
    /\ focusedElementBeforeModal = "null"
    /\ modalCloseCallback = NoCallback
    /\ overlayHidden = TRUE
    /\ overlayClasses = {}
    /\ bodyOverflow = ""
    /\ modalTitle = ""
    /\ modalBody = "empty"
    /\ listeners = [b \in DialogButtons |-> << >>]
    /\ containerTabindex = FALSE
    /\ activeElement = "body"
    /\ inDocument = PageSet
    /\ timers = << >>
    /\ liveRegion = ""
    /\ dialogs = 0
    /\ settled = [d \in 1..MaxDialogs |-> "pending"]
    /\ bootstrapped = FALSE
    /\ lastFocusedElement = "null"
    /\ mutationRecords = 0
    /\ hiddenFocusable \in BOOLEAN
    /\ absent \in AbsentRegions
    /\ op = "init"
    /\ closes = 0
    /\ cbLog = << >>
    /\ overlayListenerRan = FALSE
    /\ focusAtOpen = "null"
    /\ resolveLog = << >>
    /\ okRan = {}
    /\ uncaught = 0

\* The modal of a page that is left alone, with all its regions and a
\* stylesheet that takes the hidden overlay out of rendering.
ModalParked == ModalStart /\ hiddenFocusable = FALSE /\ absent = {}

\* The state a new task starts from: the per-task history is cleared.
Begin(name) ==
    [Cur EXCEPT !.op = name, !.closes = 0, !.cbLog = << >>,
                !.overlayListenerRan = FALSE, !.resolveLog = << >>,
                !.okRan = {}, !.uncaught = 0,
                !.focusAtOpen = IF isModalOpen THEN @ ELSE "null"]

\* A task runs only after the microtask queue has drained.
Idle == mutationRecords = 0

Room(n) == Len(timers) + n <= MaxTimers

\* A caller (e.g. a project card's click listener) calls openModal.
CallOpenModal ==
    /\ Idle /\ Room(1)
    /\ \E c \in OpenCalls :
          Commit(openModal(Begin("open"), c.title, c.content, c.className, c.onClose))

\* A caller calls closeModal.
CallCloseModal ==
    /\ Idle
    /\ Commit(closeModal(Begin("closeModal")))

CallShowConfirmModal ==
    /\ Idle /\ Room(2) /\ dialogs < MaxDialogs
    /\ Commit(showConfirmModal(Begin("open"), ConfirmTitle))

CallShowAlertModal ==
    /\ Idle /\ Room(2) /\ dialogs < MaxDialogs
    /\ Commit(showAlertModal(Begin("open"), AlertTitle))

\* The oldest 100 ms timer fires (equal delays fire in the order set).
TimerFires ==
    /\ Idle /\ timers # << >>
    /\ Commit(RunTimer([Begin("other")
                            EXCEPT !.timers = Tail(@)], Head(timers)))

\* The user clicks the overlay outside the dialog.
ClickOverlay ==
    /\ Idle /\ ~overlayHidden
    /\ Commit(DispatchClick([Begin("click overlay") EXCEPT !.activeElement = "body"],
                            "overlay"))

\* The user clicks text inside the dialog; focus goes to the nearest
\* focusable ancestor.
ClickInsideDialog ==
    /\ Idle /\ ~overlayHidden
    /\ Commit(DispatchClick(
          [Begin("click inside")
              EXCEPT !.activeElement = IF containerTabindex THEN "container" ELSE "body"],
          "container"))

\* The user clicks a control of the dialog (the dismiss control, a dialog
\* button, a link or a form control); the click focuses it first.
ClickControl ==
    /\ Idle /\ ~overlayHidden
    /\ \E b \in Range(getFocusableElements(Cur)) :
          Commit(DispatchClick(Focus(Begin("click " \o b), b), b))

PressEscapeKey ==
    /\ Idle
    /\ Commit(PressEscape(Begin("escape")))

PressTabKey ==
    /\ Idle
    /\ \E shift \in BOOLEAN, land \in 1..(Len(PageElements) + Len(ModalControls(Cur))) :
          Commit(PressTab(Begin("other"), shift, land))

\* The microtask checkpoint after a task that changed the overlay's class.
MutationObserverCallback ==
    /\ mutationRecords > 0
    /\ Commit(ObserveRecords([Begin("other") EXCEPT !.mutationRecords = 0],
                             mutationRecords))

\* init() resumes after initGitHubAPI(): initAccessibilityFeatures registers
\* the Escape listener and the observer of main.js.
FinishInit ==
    /\ Idle /\ ~bootstrapped
    /\ Commit([Begin("other") EXCEPT !.bootstrapped = TRUE])

\* While the overlay is hidden the user focuses an element of the page.
FocusPageElement ==
    /\ Idle /\ overlayHidden
    /\ \E p \in inDocument :
          /\ activeElement # p
          /\ Commit([Begin("other") EXCEPT !.activeElement = p])

\* A caller opens a notice whose onClose callback closes the modal, e.g.
\* openModal(title, content, {onClose: () => closeModal()}).
CallOpenModalClosingOnClose ==
    /\ Idle /\ Room(1)
    /\ Commit(openModal(Begin("open"), "notice", "notice", "wide", ReentrantCallback))

ModalNext ==
    \/ CallOpenModal
    \/ CallCloseModal
    \/ CallShowConfirmModal
    \/ CallShowAlertModal
    \/ TimerFires
    \/ ClickOverlay
    \/ ClickInsideDialog
    \/ ClickControl
    \/ PressEscapeKey
    \/ PressTabKey
    \/ MutationObserverCallback
    \/ FinishInit
    \/ FocusPageElement

(* ========================= the project cards ========================== *)
(* js/main.js, lines 359-563, and the keyboard support of lines 171-190.  *)
(* A card is a record: the project its listeners close over, the render   *)
(* that created it, and whether initKeyboardNavigation found it.          *)

\* An entry of the catalog.
Project(i, isFeatured) ==
    [ id |-> "project-" \o ToString(i),
      title |-> "Project " \o ToString(i),
      featured |-> isFeatured ]

\* The catalog as declared (project-2 and project-3, both featured), and
\* catalogs with an entry that is not featured.
Catalogs ==
    { << Project(2, TRUE), Project(3, TRUE) >>,
      << Project(1, FALSE), Project(2, TRUE), Project(3, TRUE) >>,
      << Project(1, TRUE), Project(2, FALSE) >> }

\* The elements of a card a user can activate: the card itself, its
\* "Learn more" button and its "View code" link.
Parts == {"card", "more", "code"}

ElementOf(card, part) ==
    part \o ":" \o card.project.id \o "/" \o ToString(card.gen)

CardElements(grid) ==
    {ElementOf(grid[i], part) : i \in 1..Len(grid), part \in Parts}

PageCur ==
    [ m |-> Cur,
      projects |-> projects,
      projectsGrid |-> projectsGrid,
      hasGrid |-> hasGrid,
      projectInits |-> projectInits,
      opened |-> opened,
      followed |-> followed,
      pageOp |-> pageOp ]

PageCommit(p) ==
    /\ CommitModal(p.m)
    /\ projects' = p.projects
    /\ projectsGrid' = p.projectsGrid
    /\ hasGrid' = p.hasGrid
    /\ projectInits' = p.projectInits
    /\ opened' = p.opened
    /\ followed' = p.followed
    /\ pageOp' = p.pageOp
    /\ UNCHANGED << repoVars, themeVars, formatVars >>

(* ------------------------------ rendering ----------------------------- *)
\* main.js createProjectCard: a new element with its two listeners.
createProjectCard(project, gen) ==
    [project |-> project, gen |-> gen, keyNav |-> FALSE]

\* projects.filter(project => project.featured)
featuredProjects(catalog) == SelectSeq(catalog, LAMBDA project : project.featured)

\* The grid after projectsGrid.innerHTML = '' and the appendChild calls.
\* The cards cleared leave the document, and the focus with them.
Repopulate(p, cards) ==
    LET old == CardElements(p.projectsGrid)
    IN  [p EXCEPT !.projectsGrid = cards,
                  !.m = [@ EXCEPT !.inDocument = (@ \ old) \cup CardElements(cards),
                                  !.activeElement = IF @ \in old THEN "body" ELSE @]]

NewCards(p) ==
    LET featured == featuredProjects(p.projects)
    IN  [i \in 1..Len(featured) |-> createProjectCard(featured[i], p.projectInits + 1)]

renderProjects_Append(p) ==
    IF ~p.hasGrid THEN p ELSE Repopulate(p, p.projectsGrid \o NewCards(p))

renderProjects(p) ==
    IF ~p.hasGrid THEN p ELSE Repopulate(p, NewCards(p))

\* main.js initProjects: renderProjects, then setupProjectInteractions,
\* which adds one more click listener to document.
initProjects(p) == [renderProjects(p) EXCEPT !.projectInits = @ + 1]

\* main.js initKeyboardNavigation: a keydown listener on every card the
\* selector finds.
initKeyboardNavigation(p) ==
    [p EXCEPT !.projectsGrid =
                  [i \in 1..Len(@) |-> [@[i] EXCEPT !.keyNav = TRUE]]]

(* ------------------------------ activation ---------------------------- *)
openProjectModal(p, project) ==
    [p EXCEPT !.m = openModal(@, project.title, "project", "", NoCallback),
              !.opened = Append(@, project.id)]

\* onclick="event.stopPropagation();" on the button and on the link.
StopsPropagation(part) == part \in {"more", "code"}

\* The document listener of setupProjectInteractions, for a click whose
\* target is the given part of the card.
projectInteraction(p, card, part) ==
    IF part = "more" THEN openProjectModal(p, card.project) ELSE p

RECURSIVE RunInteractions(_, _, _, _)
RunInteractions(p, card, part, n) ==
    IF n = 0 THEN p
    ELSE RunInteractions(projectInteraction(p, card, part), card, part, n - 1)

\* A click event whose target is the part: the listeners of the target,
\* then those of the card, then those of document.
DispatchProjectClick(p, card, part) ==
    IF StopsPropagation(part) THEN p
    ELSE RunInteractions(openProjectModal(p, card.project), card, part,
                         p.projectInits)

\* The default action of a click that no listener prevented.
ClickDefault(p, card, part) ==
    IF part = "code" THEN [p EXCEPT !.followed = Append(@, card.project.id)] ELSE p

\* A keydown of Enter or Space on the part bubbles to the card: the
\* listener of createProjectCard (lines 494-499) prevents the default and
\* opens the modal; the listener of initKeyboardNavigation (lines 184-189),
\* where installed, calls element.click() on the card.
cardKeydown(p, card, part) ==
    LET own == openProjectModal(p, card.project)
    IN  IF card.keyNav THEN DispatchProjectClick(own, card, "card") ELSE own

(* --------------------- the page's state machine ----------------------- *)
PageBegin(name) ==
    [PageCur EXCEPT !.m = Begin("other"), !.opened = << >>,
                    !.followed = << >>, !.pageOp = name]

PageStart ==
    /\ projects \in Catalogs
    /\ projectsGrid = << >>
    /\ hasGrid \in BOOLEAN
    /\ projectInits = 0
    /\ opened = << >>
    /\ followed = << >>
    /\ pageOp = "load"

\* The project cards of a page that is left alone.
PageParked ==
    /\ projects = << Project(2, TRUE), Project(3, TRUE) >>
    /\ projectsGrid = << >>
    /\ hasGrid = FALSE
    /\ projectInits = 0
    /\ opened = << >>
    /\ followed = << >>
    /\ pageOp = "load"

\* init() of main.js, or an importer, calls initProjects.
CallInitProjects ==
    /\ Idle /\ projectInits < MaxProjectInits
    /\ PageCommit(initProjects(PageBegin("initProjects")))

\* init() resumes after initGitHubAPI() and runs initAccessibilityFeatures.
FinishPageInit ==
    /\ Idle /\ ~bootstrapped /\ projectInits > 0
    /\ PageCommit(initKeyboardNavigation(
           [PageBegin("init") EXCEPT !.m = [@ EXCEPT !.bootstrapped = TRUE]]))

\* While the overlay is hidden the user moves the focus to an element.
FocusOnPage ==
    /\ Idle /\ overlayHidden
    /\ \E el \in inDocument :
          /\ activeElement # el
          /\ PageCommit([PageBegin("focus") EXCEPT
                            !.m = [@ EXCEPT !.activeElement = el]])

\* A pointer click on a part of a card: the part takes the focus, the
\* click event is dispatched, and then its default action happens.
ClickCardPart ==
    /\ Idle /\ overlayHidden /\ Room(1)
    /\ \E i \in 1..Len(projectsGrid), part \in Parts :
          LET card == projectsGrid[i]
              start == [PageBegin("click " \o part) EXCEPT
                           !.m = [@ EXCEPT !.activeElement = ElementOf(card, part)]]
          IN  PageCommit(ClickDefault(DispatchProjectClick(start, card, part),
                                      card, part))

\* Enter or Space while a part of a card has the focus.
KeyOnCardPart ==
    /\ Idle /\ Room(2)
    /\ \E i \in 1..Len(projectsGrid), part \in Parts, key \in Keys :
          /\ activeElement = ElementOf(projectsGrid[i], part)
          /\ PageCommit(cardKeydown(PageBegin("key " \o part), projectsGrid[i], part))

PageTimerFires ==
    /\ Idle /\ timers # << >>
    /\ PageCommit([PageBegin("timer") EXCEPT
                      !.m = RunTimer([@ EXCEPT !.timers = Tail(@)], Head(timers))])

PagePressEscape ==
    /\ Idle
    /\ PageCommit([PageBegin("escape") EXCEPT !.m = PressEscape(@)])

PageObserverCallback ==
    /\ mutationRecords > 0
    /\ PageCommit([PageBegin("observer") EXCEPT
                      !.m = ObserveRecords([@ EXCEPT !.mutationRecords = 0],
                                           mutationRecords)])

PageNext ==
    \/ CallInitProjects
    \/ FinishPageInit
    \/ FocusOnPage
    \/ ClickCardPart
    \/ KeyOnCardPart
    \/ PageTimerFires
    \/ PagePressEscape
    \/ PageObserverCallback


\* The modal on a page whose feed and theme store are left alone.
ModalInit == ModalStart /\ RepoStart /\ ThemeParked /\ FormatParked /\ PageParked
ModalSpec == ModalInit /\ [][ModalNext]_vars

(* --------------------------- specifications --------------------------- *)
\* The modal under the event loop's scheduling: a timer that was set fires,
\* the microtask checkpoint runs and init() finishes.  Nothing obliges the
\* user or a caller to act.
ModalFairSpec ==
    /\ ModalInit /\ [][ModalNext]_vars
    /\ WF_vars(TimerFires)
    /\ WF_vars(MutationObserverCallback)
    /\ WF_vars(FinishInit)

\* The modal with callers whose onClose callback calls closeModal.
ReentryNext ==
    \/ CallOpenModalClosingOnClose
    \/ CallOpenModal
    \/ CallCloseModal
    \/ TimerFires
    \/ ClickOverlay
    \/ ClickControl
    \/ PressEscapeKey
    \/ MutationObserverCallback
    \/ FinishInit
    \/ FocusPageElement
ReentrySpec == ModalInit /\ [][ReentryNext]_vars

\* The feed on a page whose modal stays Closed.
RepoInit ==
    RepoStart /\ ModalParked /\ ThemeParked
    /\ FormatParked /\ PageParked
RepoSpec == RepoInit /\ [][RepoNext]_vars

\* The feed with a user who activates the cards of the grid.
CardNext ==
    \/ CallInitGitHubAPI
    \/ BootLoadCompletes
    \/ ClickRetry
    \/ LoadCompletes
    \/ ClickFilterButton
    \/ FocusRepoCard
    \/ ClickRepoCard
    \/ KeyOnRepoCard
CardSpec == RepoInit /\ [][CardNext]_vars

\* The theme store on a page whose modal stays Closed and whose feed is idle.
ThemeInit ==
    ThemeStart /\ ModalParked /\ RepoStart
    /\ FormatParked /\ PageParked
ThemeSpec == ThemeInit /\ [][ThemeNext]_vars

\* The formatting functions and the markup templates, called one at a time.
FormatInit ==
    FormatStart /\ ModalParked /\ RepoStart
    /\ ThemeParked /\ PageParked
FormatSpec == FormatInit /\ [][FormatNext]_vars

\* The project cards with the modal they open.
PageInit ==
    PageStart /\ ModalParked /\ RepoStart
    /\ ThemeParked /\ FormatParked
PageSpec == PageInit /\ [][PageNext]_vars


(* ------------------------------ claims -------------------------------- *)
Count(seq, x) == Cardinality({i \in 1..Len(seq) : seq[i] = x})

\* The step closes the modal.
Closing == isModalOpen /\ ~isModalOpen'

\* C1: a deferred of showConfirmModal resolves to true when the user
\* activates the OK button, and to false on every other dismissal.  Stated
\* on the task that calls the deferred's resolve function.
C1_ConfirmResolvesByChoice ==
    \A d \in Range(resolveLog) :
        IF d \in okRan THEN settled[d] = "true" ELSE settled[d] # "true"

\* C2: closing a confirm/alert dialog by any path invokes that dialog's
\* resolve function exactly once.
C2_ResolveInvokedOnce ==
    [][ (Closing /\ modalCloseCallback.type = "resolve")
            => Count(resolveLog', modalCloseCallback.id) = 1 ]_vars

\* C3: openModal called while the modal is Open leaves the stored
\* previously-focused element unchanged (it is captured only on a
\* Closed -> Open transition).
C3_ReopenKeepsCapturedFocus ==
    [][ (isModalOpen /\ op' = "open")
            => focusedElementBeforeModal' = focusedElementBeforeModal ]_vars

\* An element of the static markup or a page element not removed.
StillInDocument(el) ==
    \/ el \in inDocument
    \/ el \in {"container", "close"}

C5_CallbackOnceBeforeHide ==
    [][ /\ (Closing /\ modalCloseCallback.type # "none")
            => /\ Len(cbLog') = 1
               /\ cbLog'[1] = [cb |-> modalCloseCallback, open |-> TRUE,
                               hidden |-> FALSE]
        /\ (Closing /\ modalCloseCallback.type = "none") => cbLog' = << >>
        /\ Closing => modalCloseCallback' = NoCallback
        /\ ~Closing => cbLog' = << >> ]_vars

C5_Witness ==
    /\ closes = 1 /\ ~isModalOpen /\ Len(cbLog) = 1
    /\ cbLog[1].cb.type = "user" /\ cbLog[1].open /\ ~cbLog[1].hidden


\* Everything but the history variables.
ProgramState ==
    << isModalOpen, focusedElementBeforeModal, modalCloseCallback,
       overlayHidden, overlayClasses, bodyOverflow, modalTitle, modalBody,
       listeners, containerTabindex, activeElement, inDocument, timers,
       liveRegion, dialogs, settled, bootstrapped, lastFocusedElement,
       mutationRecords >>

\* C6: closeModal called while the modal is Closed changes nothing: no
\* callback runs, focus, scroll and classes stay, nothing is announced.
C6_CloseWhileClosedNoOp ==
    [][ (~isModalOpen /\ op' = "closeModal")
            => /\ UNCHANGED ProgramState
               /\ closes' = 0 /\ cbLog' = << >> /\ resolveLog' = << >> ]_vars

C6_Witness ==
    /\ op = "closeModal" /\ closes = 0 /\ ~isModalOpen
    /\ liveRegion = "" /\ activeElement \in PageSet

\* C7: while the modal is Open, one Escape key press closes it and runs the
\* close sequence (callback, hide, focus restore) exactly once, also when
\* both document-level Escape listeners are registered.
C7_EscapeClosesOnce ==
    [][ (isModalOpen /\ op' = "escape")
            => /\ ~isModalOpen' /\ overlayHidden'
               /\ closes' = 1
               /\ Len(cbLog') = (IF modalCloseCallback.type = "none" THEN 0 ELSE 1)
               /\ focusedElementBeforeModal' = "null" ]_vars

C7_Witness ==
    /\ op = "escape" /\ closes = 1 /\ bootstrapped /\ ~isModalOpen
    /\ Len(cbLog) = 1

\* n presses of Tab, one task each, nothing else in between.
RECURSIVE TabTimes(_, _)
TabTimes(s, n) == IF n = 0 THEN s ELSE TabTimes(PressTab(s, FALSE, 1), n - 1)

\* C8: with N >= 1 focusable controls in the open modal: from the first
\* control N presses of Tab lead back to it and one Shift+Tab leads to the
\* last; from the last control one Tab leads to the first.
C8_FocusTrapCycle ==
    LET f == getFocusableElements(Cur)
        N == Len(f)
    IN (isModalOpen /\ Idle /\ N >= 1)
          => /\ activeElement = f[1]
                  => /\ TabTimes(Cur, N).activeElement = f[1]
                     /\ \A k \in 1..(N - 1) : TabTimes(Cur, k).activeElement = f[k + 1]
                     /\ PressTab(Cur, TRUE, 1).activeElement = f[N]
             /\ activeElement = f[N]
                  => PressTab(Cur, FALSE, 1).activeElement = f[1]

C8_Witness ==
    /\ isModalOpen /\ Idle
    /\ Len(getFocusableElements(Cur)) = 3
    /\ activeElement = getFocusableElements(Cur)[1]
    /\ inDocument = PageSet

\* C9: while the modal is Open no Tab or Shift+Tab key press leaves focus
\* on an element outside the modal's focusable set, whatever element held
\* focus when the key was pressed.
C9_TabStaysInModal ==
    [][ (isModalOpen /\ PressTabKey)
            => activeElement' \in Range(getFocusableElements(Cur)) ]_vars

\* The clicks whose target lies inside .modal-container.
InsideClicks ==
    {"click inside", "click close", "click link"}
        \cup {"click " \o b : b \in DialogButtons}

\* C10 as stated: while Open a click on the overlay itself closes the
\* modal; a click anywhere inside the dialog container never reaches the
\* overlay's close handler and never closes the modal.
C10_InsideClickNeverCloses ==
    [][ isModalOpen =>
           /\ op' = "click overlay" => ~isModalOpen'
           /\ op' \in InsideClicks => (~overlayListenerRan' /\ isModalOpen') ]_vars

\* C10 amended: a click on the overlay itself closes the modal; a click
\* inside the dialog container never reaches the overlay's listener, and
\* closes the modal only when its target is the dismiss control or a dialog
\* button that carries a close listener.
C10_InsideClickSkipsOverlay ==
    [][ isModalOpen =>
           /\ op' = "click overlay"
                 => (~isModalOpen' /\ closes' = 1 /\ overlayListenerRan')
           /\ op' \in InsideClicks => ~overlayListenerRan'
           /\ (op' \in InsideClicks /\ ~isModalOpen')
                 => \/ op' = "click close"
                    \/ \E b \in DialogButtons :
                          op' = "click " \o b /\ listeners[b] # << >>
           /\ op' = "click inside" => (isModalOpen' /\ closes' = 0) ]_vars

C10_Witness ==
    /\ op = "click overlay" /\ closes = 1 /\ overlayListenerRan /\ ~isModalOpen

(* ---------------------- claims: repository feed ----------------------- *)
\* The repositories of a response that the feed keeps.
KeptOf(data) == {r \in Range(data) : ~(r.fork /\ r.stargazers_count <= ForkStars)}

\* C11: after a successful loadRepositories the canonical list holds only
\* repositories of the response, none of them a fork with 5 stars or fewer,
\* each once; it has at most 12 entries, as many as there are to show; it is
\* ordered by updated_at descending; and no repository left out was updated
\* later than one that is listed.
C11_CanonicalList ==
    repoOp = "ok" =>
        /\ Range(repositories) \subseteq KeptOf(lastData)
        /\ \A i, j \in 1..Len(repositories) :
               i < j => /\ repositories[i] # repositories[j]
                        /\ repositories[i].updated_at >= repositories[j].updated_at
        /\ Len(repositories) <= RepoLimit
        /\ Len(repositories) = RepoLimit \/ Len(repositories) = Cardinality(KeptOf(lastData))
        /\ \A r \in KeptOf(lastData) \ Range(repositories) :
               \A i \in 1..Len(repositories) : repositories[i].updated_at >= r.updated_at

C11_Witness ==
    /\ repoOp = "ok"
    /\ Cardinality(KeptOf(lastData)) > RepoLimit
    /\ Len(repositories) = RepoLimit
    /\ \E i \in 1..(Len(lastData) - 1) : lastData[i].updated_at < lastData[i + 1].updated_at

\* Two texts equal up to the case of their letters.
SameIgnoringCase(a, b) ==
    /\ Len(a) = Len(b)
    /\ \A k \in 1..Len(a) : LowerChar(a[k]) = LowerChar(b[k])

\* The text occurs in the field, case ignored; an absent field holds nothing.
OccursIn(text, field) ==
    /\ ~field.null
    /\ \E i \in 1..(Len(field.text) + 1), j \in 0..Len(field.text) :
          SameIgnoringCase(SubSeq(field.text, i, j), text)

\* The predicate of the derived view.
InView(repo, text, category) ==
    /\ \/ text = << >>
       \/ OccursIn(text, Text(repo.name))
       \/ OccursIn(text, repo.description)
       \/ OccursIn(text, repo.language)
    /\ \/ category = "all"
       \/ category = "starred" /\ repo.stargazers_count > StarredStars

ViewOf(text, category) ==
    SelectSeq(repositories, LAMBDA r : InView(r, text, category))

\* C12: once the listeners are installed and whenever no debounced handler
\* is pending, the derived view is the canonical list restricted to the
\* repositories that match the text of the search field and the current
\* category.
C12_ViewMatchesFilters ==
    bootStage = "ready" /\ debounceTimers = << >> =>
        filteredRepositories = ViewOf(searchValue, currentFilter)

\* C13: when applyFilters has run (for a category button, for Escape, for the
\* debounced input), the derived view is, in canonical order, exactly the
\* canonical repositories that match the search text and the category; with
\* the search text empty it is the category's subset.
C13_ApplyFilters ==
    repoOp \in {"filter", "escape", "debounce"} =>
        /\ filteredRepositories = ViewOf(searchValue, currentFilter)
        /\ searchValue = << >> =>
               filteredRepositories =
                   SelectSeq(repositories, LAMBDA r : currentFilter = "all"
                                 \/ r.stargazers_count > StarredStars)

C13_Witness ==
    /\ repoOp = "filter"
    /\ searchValue = <<"A", "B">>
    /\ currentFilter = "starred"
    /\ filteredRepositories # << >>
    /\ \E i \in 1..Len(repositories) :
          /\ repositories[i].stargazers_count > StarredStars
          /\ repositories[i] \notin Range(filteredRepositories)

\* C14: when a fetch fails, loadRepositories returns with the loading
\* indicator hidden, the error panel shown with the failure's message and
\* the retry handler installed, and when it was the load of initGitHubAPI
\* the listeners are installed next; a click on retry hides the panel and
\* starts another load.
C14_FailureShowsRetry ==
    [][ /\ repoOp' \in {"http", "reject"} =>
              /\ loadingHidden' /\ ~errorHidden' /\ retryInstalled'
              /\ errorMessage' = IF repoOp' = "http"
                                 THEN "GitHub API Error: 403 Forbidden"
                                 ELSE "Failed to fetch"
              /\ inFlight' = inFlight => bootStage' = "ready"
        /\ repoOp' = "retry" =>
              /\ errorHidden' /\ ~loadingHidden'
              /\ inFlight' = inFlight + 1 ]_vars

C14_Witness ==
    /\ repoOp = "http" /\ bootStage = "ready" /\ inFlight = 0
    /\ ~errorHidden /\ loadingHidden /\ retryInstalled

\* C15: the debounced handler runs only for the timer of the latest input
\* event, which is then the only timer pending and has waited the full
\* delay; it runs once for the burst, no timer is left, and the view it
\* computes is the one of the text of that latest input event.
C15_DebounceRunsOnceForLast ==
    [][ /\ Len(debounceTimers') <= 1
        /\ repoOp' = "debounce" =>
              /\ debounceTimers = << [id |-> timeout, remaining |-> 0] >>
              /\ debounceTimers' = << >>
              /\ burst >= 1 /\ burst' = 0
              /\ searchValue = lastInput =>
                     filteredRepositories' = ViewOf(lastInput, currentFilter) ]_vars

C15_Witness ==
    /\ repoOp = "debounce"
    /\ lastInput = <<"A", "B">>
    /\ filteredRepositories # << >>
    /\ Len(filteredRepositories) < Len(repositories)

\* C16: Escape in the search field leaves the field empty, the derived view
\* equal to the category's subset of the canonical list, and the field
\* without focus.
C16_EscapeClearsSearch ==
    repoOp = "escape" =>
        /\ searchValue = << >>
        /\ filteredRepositories =
               SelectSeq(repositories, LAMBDA r : currentFilter = "all"
                             \/ r.stargazers_count > StarredStars)
        /\ activeElement # "repo-search"

C16_Witness ==
    /\ repoOp = "escape"
    /\ lastInput = <<"A", "B">> /\ debounceTimers # << >>
    /\ currentFilter = "starred"
    /\ filteredRepositories # << >>
    /\ Len(filteredRepositories) < Len(repositories)

\* C17: after renderRepositories the empty-state panel is visible exactly
\* when the derived view is empty, the grid then holds no card, and
\* otherwise holds the cards of the derived view.
C17_EmptyStateIffEmpty ==
    renders > 0 =>
        /\ ~emptyHidden <=> filteredRepositories = << >>
        /\ ~emptyHidden => gridCards = << >>
        /\ emptyHidden => gridCards = IdsOf(filteredRepositories)

C17_Witness ==
    /\ renders > 0 /\ repoOp = "filter"
    /\ ~emptyHidden /\ filteredRepositories = << >> /\ repositories # << >>

(* ------------------------ claims: theme store ------------------------- *)
\* C18: in every state the in-memory theme is light or dark and the
\* data-theme attribute equals it.
C18_ThemeRendered ==
    /\ currentTheme \in Themes
    /\ dataTheme = currentTheme

\* A preference can be read from the storage.
PreferenceStored ==
    /\ storageMode # "throws"
    /\ storedItem # NoItem /\ storedItem # ""

\* C19: initThemeToggle, like the evaluation of the module on a page load,
\* sets the theme to the stored preference when there is one and to the OS
\* preference otherwise; after a toggle with working storage, loading the
\* page again or initializing again keeps the toggled theme.
C19_InitResolvesStoredFirst ==
    [][ /\ themeOp' \in {"initThemeToggle", "reload"} =>
              currentTheme' = IF PreferenceStored THEN storedItem ELSE osTheme
        /\ /\ themeOp = "toggle" /\ storageMode = "ok"
           /\ themeOp' \in {"initThemeToggle", "reload"}
           => currentTheme' = currentTheme ]_vars

C19_Witness ==
    /\ themeOp = "initThemeToggle" /\ themeInits = 1
    /\ storageMode = "ok" /\ storedItem = "dark"
    /\ osTheme = "light" /\ currentTheme = "dark" /\ dataTheme = "dark"

\* C20: with the listener installed, a change of the OS colour scheme sets
\* the theme to the OS value when no preference is stored and the user made
\* no choice, and leaves the theme alone once the user has chosen by toggle
\* or forceSet.
C20_SystemChangeRespectsChoice ==
    [][ themeOp' = "system" /\ themeInits > 0 =>
            /\ userChose => currentTheme' = currentTheme /\ dataTheme' = dataTheme
            /\ ~userChose /\ ~PreferenceStored =>
                   currentTheme' = osTheme' /\ dataTheme' = osTheme' ]_vars

\* The other theme of the pair, as toggleTheme picks it.
Flipped(theme) == IF theme = "light" THEN "dark" ELSE "light"

\* C21: each toggleTheme call of a click flips the theme between light and
\* dark, applies it to the attribute, writes it to a working storage and
\* dispatches one notification that carries the new value.
C21_ToggleFlipsAndNotifies ==
    themeOp = "toggle" =>
        /\ Len(themeEvents) = themeInits
        /\ \A i \in 1..Len(themeEvents) :
               themeEvents[i] = Flipped(IF i = 1 THEN themeBefore
                                        ELSE themeEvents[i - 1])
        /\ currentTheme = themeEvents[Len(themeEvents)]
        /\ dataTheme = currentTheme
        /\ storageMode = "ok" => storedItem = currentTheme
        /\ themeBefore \in Themes /\ themeInits = 1 =>
               currentTheme \in Themes \ {themeBefore}

C21_Witness ==
    /\ themeOp = "toggle" /\ themeBefore = "light"
    /\ currentTheme = "dark" /\ dataTheme = "dark"
    /\ storageMode = "ok" /\ storedItem = "dark"
    /\ themeEvents = << "dark" >>

\* C22: forceSetTheme with a value other than light and dark changes
\* neither the theme, the attribute nor the stored preference, dispatches
\* no notification and throws nothing.
C22_ForceSetInvalidIsNoOp ==
    [][ themeOp' = "forceSet blue" =>
            /\ currentTheme' = currentTheme
            /\ dataTheme' = dataTheme
            /\ storedItem' = storedItem
            /\ toggleLabel' = toggleLabel
            /\ themeEvents' = << >> /\ deliveries' = << >>
            /\ ~threw' ]_vars

C22_Witness ==
    /\ themeOp = "forceSet blue" /\ themeInits = 1
    /\ currentTheme = "dark" /\ storedItem = "dark" /\ themeEvents = << >>

\* C23: when resetToSystemTheme has returned no preference can be read from
\* the storage and the theme is the OS preference, and the next change of
\* the OS colour scheme is applied by the installed listener.
C23_ResetFollowsSystem ==
    [][ /\ themeOp' = "reset" =>
              /\ ~PreferenceStored'
              /\ currentTheme' = osTheme' /\ dataTheme' = osTheme'
        /\ themeOp = "reset" /\ themeOp' = "system" /\ themeInits > 0 =>
              currentTheme' = osTheme' /\ dataTheme' = osTheme' ]_vars

C23_Witness ==
    /\ themeOp = "reset" /\ themeInits = 1 /\ ~userChose
    /\ storageMode = "ok" /\ storedItem = NoItem
    /\ themeBefore = "dark" /\ currentTheme = "light" /\ osTheme = "light"
    /\ themeEvents = << "light" >>

\* C24: with a storage whose every read, write and remove throws,
\* initThemeToggle, a toggle, forceSetTheme and resetToSystemTheme let no
\* exception out and still update the in-memory theme and the attribute.
C24_StorageFailureContained ==
    storageMode = "throws" =>
        /\ ~threw
        /\ themeOp = "initThemeToggle" =>
               currentTheme = osTheme /\ dataTheme = osTheme
        /\ themeOp = "toggle" =>
               currentTheme = themeEvents[Len(themeEvents)]
               /\ dataTheme = currentTheme
               /\ themeEvents[1] = Flipped(themeBefore)
        /\ themeOp \in {"forceSet light", "forceSet dark"} =>
               "forceSet " \o currentTheme = themeOp /\ dataTheme = currentTheme
        /\ themeOp = "reset" =>
               currentTheme = osTheme /\ dataTheme = osTheme

C24_Witness ==
    /\ storageMode = "throws" /\ themeOp = "toggle" /\ ~threw
    /\ themeBefore = "light" /\ currentTheme = "dark" /\ dataTheme = "dark"

\* C25: every callback registered with onThemeChange is called for every
\* notification of a task, with the notified value, in registration order;
\* a task that changes the theme of a page with callbacks notifies.
C25_ListenersInOrder ==
    /\ Len(deliveries) = Len(themeEvents) * themeListeners
    /\ \A i \in 1..Len(deliveries) :
           deliveries[i] =
               [listener |-> ((i - 1) % themeListeners) + 1,
                value |-> themeEvents[((i - 1) \div themeListeners) + 1]]
    /\ currentTheme # themeBefore /\ themeListeners > 0 =>
           /\ themeEvents # << >>
           /\ themeEvents[Len(themeEvents)] = currentTheme

C25_Witness ==
    /\ themeListeners = 2 /\ themeOp = "toggle"
    /\ deliveries = << [listener |-> 1, value |-> "dark"],
                       [listener |-> 2, value |-> "dark"] >>

(* ------------------- claims: formatting and markup -------------------- *)
\* The five characters escapeHtml replaces.
Significant == {"&", "<", ">", "\"", "'"}

\* C26: every text a template puts into markup (project title,
\* description, tags, image reference, link, detail texts, metric labels
\* and values; repository name, description, language; message and button
\* texts of the dialogs) is free of the raw characters & < > " '.
C26_InsertedTextEscaped ==
    \A i \in 1..Len(markup) :
        \A j \in 1..Len(markup[i].text) : markup[i].text[j] \notin Significant

\* C27: activating the "View code" link of a project card, by a pointer
\* click or by Enter or Space while the link has the focus, calls
\* openProjectModal for no project.
C27_ViewCodeNeverOpensModal ==
    pageOp \in {"click code", "key code"} => opened = << >>

\* A count with its unit, the unit in the plural unless the count is 1.
Counted(n, unit) ==
    ToString(n) \o " " \o unit \o (IF n = 1 THEN "" ELSE "s") \o " ago"

\* The phrase for a distance of d whole days.
PhraseOf(d) ==
    CASE d = 0 -> "today"
      [] d = 1 -> "yesterday"
      [] d \in 2..6 -> ToString(d) \o " days ago"
      [] d \in 7..29 -> Counted(d \div 7, "week")
      [] d \in 30..364 -> Counted(d \div 30, "month")
      [] OTHER -> Counted(d \div 365, "year")

\* C28: formatRelativeTime returns, for a timestamp d whole days from now
\* in either direction, today for 0, yesterday for 1, "d days ago" for
\* 2..6, weeks for 7..29, months for 30..364 and years from 365 on, the
\* unit singular at 1; so 6, 7, 29, 30, 364 and 365 days give "6 days ago",
\* "1 week ago", "4 weeks ago", "1 month ago", "12 months ago", "1 year ago".
C28_RelativeTimePhrases ==
    fmtOp = "formatRelativeTime" =>
        LET date == fmtCall.num
            hours == IF date > Now THEN date - Now ELSE Now - date
            d == hours \div DayLength
        IN  /\ fmtText = PhraseOf(d)
            /\ d = 6 => fmtText = "6 days ago"
            /\ d = 7 => fmtText = "1 week ago"
            /\ d = 29 => fmtText = "4 weeks ago"
            /\ d = 30 => fmtText = "1 month ago"
            /\ d = 364 => fmtText = "12 months ago"
            /\ d = 365 => fmtText = "1 year ago"

C28_Witness ==
    /\ fmtOp = "formatRelativeTime"
    /\ fmtCall.num = Now + 364 * DayLength + (DayLength - 1)
    /\ fmtText = "12 months ago"

\* The tenths nearest to n / unit, both of them when n / unit lies midway.
NearestTenths(n, unit) ==
    {t \in {(10 * n) \div unit, (10 * n) \div unit + 1} :
        (IF 10 * n > t * unit THEN 2 * (10 * n - t * unit)
         ELSE 2 * (t * unit - 10 * n)) <= unit}

\* A number of tenths in decimal, a trailing ".0" dropped.
Shown(t) ==
    ToString(t \div 10) \o (IF t % 10 = 0 THEN "" ELSE "." \o ToString(t % 10))

\* C29: formatNumber prints n below 1000 as it is, n from 1000 up to
\* 999999 as n / 1000 rounded to one decimal with k, and n from 1000000 on
\* as n / 1000000 rounded to one decimal with M, a trailing ".0" dropped;
\* 999, 1000, 1500 and 1000000 give "999", "1k", "1.5k" and "1M"; the
\* number printed before k is below 1000.
C29_FormatNumber ==
    fmtOp = "formatNumber" =>
        /\ fmtCall.num < 1000 => fmtText = ToString(fmtCall.num)
        /\ fmtCall.num >= 1000 /\ fmtCall.num < 1000000 =>
               \E t \in NearestTenths(fmtCall.num, 1000) :
                   fmtText = Shown(t) \o "k" /\ t < 10000
        /\ fmtCall.num >= 1000000 =>
               \E t \in NearestTenths(fmtCall.num, 1000000) : fmtText = Shown(t) \o "M"
        /\ fmtCall.num = 999 => fmtText = "999"
        /\ fmtCall.num = 1000 => fmtText = "1k"
        /\ fmtCall.num = 1500 => fmtText = "1.5k"
        /\ fmtCall.num = 1000000 => fmtText = "1M"

(* ----------------------- claims: project cards ------------------------ *)
\* C30: once renderProjects has run on a page with the container, however
\* often, the container holds one card per featured project of the
\* catalog, in the order of the catalog, and nothing else.
C30_OneCardPerFeatured ==
    hasGrid /\ projectInits > 0 =>
        /\ Len(projectsGrid) = Len(featuredProjects(projects))
        /\ \A i \in 1..Len(projectsGrid) :
               /\ projectsGrid[i].project = featuredProjects(projects)[i]
               /\ projectsGrid[i].project.featured
        /\ \A i \in 1..Len(projects) :
               Cardinality({k \in 1..Len(projectsGrid) :
                               projectsGrid[k].project = projects[i]})
                   = IF projects[i].featured THEN 1 ELSE 0

C30_Witness ==
    /\ pageOp = "initProjects" /\ projectInits = 2 /\ hasGrid
    /\ Len(projects) = 3 /\ Len(projectsGrid) = 2
    /\ \A i \in 1..2 : projectsGrid[i].gen = 2

(* ------------------- claims: the modal, continued --------------------- *)
\* C31: on a page that lacks the modal root, the title region or the body
\* region, a call of openModal changes nothing of the modal: it stays
\* closed, the stored focused element and the stored close callback are
\* what they were, the overlay stays hidden with its title, body and
\* classes, and page scroll is not disabled.
C31_OpenWithoutRegionsIsNoOp ==
    [][absent # {} /\ op' = "open" =>
          /\ ~isModalOpen' /\ overlayHidden'
          /\ bodyOverflow' = "" /\ bodyOverflow' = bodyOverflow
          /\ UNCHANGED << focusedElementBeforeModal, modalCloseCallback,
                          overlayClasses, modalTitle, modalBody, activeElement,
                          containerTabindex, liveRegion, mutationRecords >>]_vars

C31_Witness ==
    /\ absent = {"modal-title"} /\ op = "open" /\ dialogs = 0
    /\ ~isModalOpen /\ activeElement = "p2"

C35_TimerSetBeforeCloseKeepsFocus ==
    [][(/\ ~hiddenFocusable
        /\ timers # << >> /\ Len(timers') < Len(timers)
        /\ Head(timers).closed)
          => activeElement' = activeElement]_vars

\* C36: the deferred returned by every showConfirmModal or showAlertModal
\* call is resolved, at the latest some time after the modal is next seen
\* closed.
C36_DeferredResolvedOnceClosed ==
    \A d \in 1..MaxDialogs :
        (dialogs >= d /\ ~isModalOpen) ~> (settled[d] # "pending")

\* C37: when the stored onClose callback itself calls closeModal, one call
\* of closeModal invokes the callback exactly once, no error escapes, and
\* the modal is closed when the task ends.
C37_ReentrantCloseCompletes ==
    (cbLog # << >> /\ cbLog[1].cb = ReentrantCallback) =>
        /\ Len(cbLog) = 1
        /\ uncaught = 0
        /\ ~isModalOpen /\ overlayHidden /\ modalCloseCallback = NoCallback

(* -------------------- claims: the feed, continued --------------------- *)
\* The repositories of a list that belong to a category.
CategoryMatching(list, filter) ==
    SelectSeq(list, LAMBDA repo : MatchesFilter(repo, filter))

\* C40: when a debounce timer set by an input event fires after Escape has
\* emptied the search field, the derived view is exactly the
\* category-matching part of the canonical list, and the grid shows it:
\* the text typed before Escape is not applied.
C40_EscapeOutlivesPendingTimer ==
    [][(repoOp' = "debounce" /\ lastInput # << >> /\ searchValue = << >>) =>
          /\ searchValue' = << >>
          /\ repositories' = repositories
          /\ filteredRepositories' = CategoryMatching(repositories, currentFilter)
          /\ gridCards' = IdsOf(filteredRepositories')]_vars

\* The timer of an input "AB" has fired after Escape, and the view holds a
\* repository that the text "AB" does not match.
C40_Witness ==
    /\ repoOp = "debounce" /\ lastInput = <<"A", "B">> /\ searchValue = << >>
    /\ \E i \in 1..Len(filteredRepositories) :
           ~MatchesSearch(filteredRepositories[i], <<"A", "B">>)

\* C32: in a step that leaves a fetch in flight, whatever the step is (a
\* category button, the debounced search, Escape, another load starting or
\* resolving), the loading indicator is visible afterwards and the
\* canonical list and the filtered view are what they were.
C32_FeedFrozenDuringFetch ==
    [][(InFlight > 0 /\ InFlight' > 0) =>
          /\ ~loadingHidden'
          /\ UNCHANGED << repositories, filteredRepositories >>]_vars

\* C33: a response that resolves while another load is in flight, or as
\* the last of loads that were in flight together, is processed like any
\* other: a 2xx response replaces the canonical list and the filtered view
\* by what is computed from it and the grid shows that; a failure keeps
\* both lists and shows the error panel.  So after the last of them the
\* lists are those of the response that resolved last.
C33_OverlappingLoadsLastWins ==
    [][race' # "none" =>
          /\ repoOp' = "ok" =>
                /\ repositories' = ProcessResponse(lastData')
                /\ filteredRepositories' = repositories'
                /\ gridCards' = IdsOf(repositories')
                /\ loadingHidden'
          /\ repoOp' \in {"http", "reject"} =>
                /\ UNCHANGED << repositories, filteredRepositories >>
                /\ ~errorHidden' /\ loadingHidden']_vars

\* Both of two loads that were in flight together have resolved, the last
\* of them with a list, and the feed shows what that list gives.
C33_Witness ==
    /\ race = "done" /\ repoOp = "ok" /\ InFlight = 0
    /\ Len(lastData) = 2
    /\ repositories = ProcessResponse(lastData) /\ repositories # << >>
    /\ gridCards = IdsOf(repositories)

\* C38: one activation of a repository card, by a click or by Enter or
\* Space on the focused card, opens the repository's URL exactly once.
C38_ActivationOpensOnce ==
    repoOp \in {"click card", "key card"} =>
        /\ Len(windowOpens) = 1
        /\ activeElement = CardElement(windowOpens[1])

(* ------------------ claims: project cards, continued ------------------ *)
\* C39: a pointer click on the "Learn more" button of a project card opens
\* the detail modal of that card's project, and only that.
C39_LearnMoreOpensDetail ==
    pageOp = "click more" =>
        \E i \in 1..Len(projectsGrid) :
            /\ activeElement = ElementOf(projectsGrid[i], "more")
            /\ opened = << projectsGrid[i].project.id >>
            /\ isModalOpen /\ modalTitle = projectsGrid[i].project.title

====
